---- MODULE Spec2Model ----
(***************************************************************************)
(* Model of the search orchestration pipeline of kimghw/IACSSEARCH:       *)
(* SearchOrchestrator, SearchEmbeddingService and SearchVectorService.     *)
(*                                                                         *)
(* Conventions                                                             *)
(*  - texts are sequences of one-character strings;                        *)
(*  - similarity scores are integers in tenths (8 is 0.8), collection      *)
(*    weights are tenths as well, so a weighted score is in hundredths;    *)
(*  - schema objects are records carrying the attributes the services      *)
(*    read and write (query.auto_extract_filters, match.weighted_score);   *)
(*  - the vector store, the embedding provider, the document store and     *)
(*    the key-value cache are the environment: their answers are chosen    *)
(*    nondeterministically within their interface contract.                *)
(***************************************************************************)
EXTENDS Integers, Sequences, FiniteSets, TLC

\* Python's None, for string-valued and for object-valued attributes
None == "None"
NoRec == [none |-> TRUE]

\* CacheService.redis_client: "connected", or None when the cache cannot be
\* reached; every cache operation then returns at once
VARIABLE redis_client

(***************************************************************************)
(* Program constants                                                       *)
(***************************************************************************)
max_retries == 3
retry_delay == 1
rate_limit_delay == 5
MaxQueryLen == 1000
MinQueryLen == 2
max_length == 8000
expected_dimension == 1536
similarity_threshold == 7
default_collection == "emails"
available_collections == <<"emails", "documents", "messages">>

(***************************************************************************)
(* Bounds of the model                                                     *)
(***************************************************************************)
MaxLimit == 2
MaxEmbCalls == 3
MaxQueryCalls == 2
NumCalls == 2
MaxSamples == 1001
FreeSamples == 5
StepsPerCall == 4
MaxUpdates == 3

DocIds == {"d1", "d2"}
Scores == {8, 9, 10}
Thresholds == {0, 7, 9}
Modes == {"hybrid", "vector_only", "filter_only"}
Strategies == {"single", "multiple", "auto"}
\* target_collections of a query; <<>> is "not given"
TargetChoices == {<<>>, <<"documents">>, <<"archive">>,
                  <<"emails", "documents">>, <<"archive", "messages">>}
ErrorKinds == {"RateLimitError", "Timeout", "APIError", "Exception"}

(***************************************************************************)
(* Sequence helpers                                                        *)
(***************************************************************************)
Range(s) == {s[i] : i \in 1..Len(s)}

SeqContains(s, x) == \E i \in 1..Len(s) : s[i] = x

Take(s, n) == SubSeq(s, 1, IF n < Len(s) THEN n ELSE Len(s))

RECURSIVE FilterSeq(_, _)
FilterSeq(s, keep) ==
  IF s = <<>> THEN <<>>
  ELSE IF Head(s) \in keep THEN <<Head(s)>> \o FilterSeq(Tail(s), keep)
       ELSE FilterSeq(Tail(s), keep)

(***************************************************************************)
(* Text helpers (str.strip, str.lower, ' '.join(text.split()))             *)
(***************************************************************************)
IsSpace(c) == c = " "

RECURSIVE LStrip(_)
LStrip(t) == IF t # <<>> /\ IsSpace(Head(t)) THEN LStrip(Tail(t)) ELSE t

RECURSIVE RStrip(_)
RStrip(t) ==
  IF t # <<>> /\ IsSpace(t[Len(t)]) THEN RStrip(SubSeq(t, 1, Len(t) - 1)) ELSE t

Strip(t) == RStrip(LStrip(t))

LowerChar(c) == IF c = "A" THEN "a" ELSE IF c = "B" THEN "b" ELSE c

Lower(t) == [i \in 1..Len(t) |-> LowerChar(t[i])]

RECURSIVE CollapseRuns(_)
CollapseRuns(t) ==
  IF Len(t) < 2 THEN t
  ELSE IF IsSpace(t[1]) /\ IsSpace(t[2]) THEN CollapseRuns(Tail(t))
       ELSE <<Head(t)>> \o CollapseRuns(Tail(t))

\* ' '.join(text.split()): whitespace runs become one space, ends trimmed
JoinSplit(t) == CollapseRuns(Strip(t))

(***************************************************************************)
(* State                                                                   *)
(***************************************************************************)
VARIABLES
  \* SearchEmbeddingService
  embPc,          \* position inside search_embedding_create
  embText,        \* normalized text of the call in progress
  attempt,        \* loop variable of _create_embedding_with_retry
  provCalls,      \* provider invocations made by the call in progress
  last_error,     \* last_error of _create_embedding_with_retry
  api_calls, api_errors, cache_hits, cache_misses,
  embCache,       \* embedding entries of the key-value cache: key -> vector
  embCacheAtCall, \* embCache as it was when the call in progress began
  embResult,      \* vector returned by the call, or NoRec
  embError,       \* exception raised by the call, or NoRec
  attemptLog,     \* kinds of error the provider raised in the call in progress
  slept           \* the sleeps of the call in progress: the attempt each one
                  \* came after and its length in seconds

embVars == <<embPc, embText, attempt, provCalls, last_error, api_calls,
             api_errors, cache_hits, cache_misses, embCache, embCacheAtCall,
             embResult, embError, attemptLog, slept>>

(***************************************************************************)
(* SearchEmbeddingService                                                  *)
(***************************************************************************)
\* texts handed to the embedding service
EmbTexts == { <<"a">>, <<"A">>, <<" ", "a", " ">>, <<"a", " ", " ", "b">>,
              <<"a", " ", "b">> }

\* vectors the provider can answer with: dimension, the kinds of element it
\* holds, and the text it was made from
ProviderVectors(text) ==
  { [dim |-> expected_dimension, vals |-> {"zero", "nonzero"}, src |-> text],
    [dim |-> expected_dimension, vals |-> {"zero"}, src |-> text],
    [dim |-> expected_dimension, vals |-> {"nonzero", "str"}, src |-> text],
    [dim |-> 3, vals |-> {"nonzero"}, src |-> text],
    [dim |-> 0, vals |-> {}, src |-> text] }

\* isinstance(v, (int, float))
IsNumber(v) == v \in {"zero", "nonzero"}

search_embedding_validate(embedding) ==
  IF embedding.dim = 0 THEN FALSE
  ELSE IF embedding.dim # expected_dimension THEN FALSE
  ELSE IF ~(\A v \in embedding.vals : IsNumber(v)) THEN FALSE
  ELSE IF \A v \in embedding.vals : v = "zero" THEN FALSE
  ELSE TRUE

_search_embedding_normalize_text(text) ==
  LET normalized == JoinSplit(text)
      capped == IF Len(normalized) > max_length
                THEN SubSeq(normalized, 1, max_length) \o <<".", ".", ".">>
                ELSE normalized
  IN  Strip(capped)

\* sha256 of the lower-cased, trimmed text: equal exactly when those are equal
_generate_text_hash(text) == Lower(Strip(text))

\* the lookup with the text itself as key
cache_embedding_get_raw_key(text) ==
  IF text \in DOMAIN embCache /\ embCache[text].dim # 0
  THEN embCache[text] ELSE NoRec

cache_embedding_get(text) ==
  LET key == _generate_text_hash(text)
  IN  IF redis_client # None /\ key \in DOMAIN embCache
           /\ embCache[key].dim # 0
      THEN embCache[key] ELSE NoRec

\* a write that reaches the store although the client is gone
cache_embedding_set_without_client(text, embedding) ==
  LET key == _generate_text_hash(text)
  IN  [k \in DOMAIN embCache \cup {key} |->
         IF k = key THEN embedding ELSE embCache[k]]

cache_embedding_set(text, embedding) ==
  LET key == _generate_text_hash(text)
  IN  IF redis_client = None THEN embCache
      ELSE [k \in DOMAIN embCache \cup {key} |->
              IF k = key THEN embedding ELSE embCache[k]]

\* the exception _create_embedding_with_retry raises after its loop
RetryFailure(err) == [type |-> "Exception", last |-> err]

\* search_embedding_create up to the cache lookup
EmbCreateBegin(text) ==
  LET normalized_text == _search_embedding_normalize_text(text)
      cached_embedding == cache_embedding_get(normalized_text)
  IN  /\ embPc = "idle"
      /\ embText' = normalized_text
      /\ embCacheAtCall' = embCache
      /\ provCalls' = 0
      /\ attempt' = 0
      /\ last_error' = NoRec
      /\ embError' = NoRec
      /\ attemptLog' = <<>>
      /\ slept' = <<>>
      /\ IF cached_embedding # NoRec
         THEN /\ cache_hits' = cache_hits + 1
              /\ embResult' = cached_embedding
              /\ embPc' = "returned"
              /\ UNCHANGED cache_misses
         ELSE /\ cache_misses' = cache_misses + 1
              /\ embResult' = NoRec
              /\ embPc' = "attempt"
              /\ UNCHANGED cache_hits
      /\ UNCHANGED <<api_calls, api_errors, embCache>>

\* the sleep at the top of an iteration: none before the first attempt, then
\* retry_delay * 2 ** (attempt - 1), whatever the attempt before raised
BackoffSleep ==
  IF attempt > 0
  THEN <<[after |-> attempt, seconds |-> retry_delay * 2 ^ (attempt - 1)]>>
  ELSE <<>>

\* the sleep of the except clause for rate limits
RateLimitSleep(kind) ==
  IF kind = "RateLimitError" /\ attempt < max_retries - 1
  THEN <<[after |-> attempt + 1, seconds |-> rate_limit_delay]>>
  ELSE <<>>

\* the successful iteration with the cache write made before validation
EmbAttemptOkCachingFirst(embedding) ==
  /\ embPc = "attempt"
  /\ attempt < max_retries
  /\ slept' = slept \o BackoffSleep
  /\ api_calls' = api_calls + 1
  /\ provCalls' = provCalls + 1
  /\ IF search_embedding_validate(embedding)
     THEN /\ embCache' = cache_embedding_set(embText, embedding)
          /\ embResult' = embedding
          /\ embPc' = "returned"
          /\ UNCHANGED embError
     ELSE /\ embCache' = cache_embedding_set(embText, embedding)
          /\ embError' = [type |-> "ValueError", last |-> NoRec]
          /\ embPc' = "raised"
          /\ UNCHANGED embResult
  /\ UNCHANGED <<embText, attempt, last_error, api_errors, cache_hits,
                 cache_misses, embCacheAtCall, attemptLog>>

\* one iteration of the retry loop whose provider call succeeds, followed by
\* validation and the cache write of search_embedding_create
EmbAttemptOk(embedding) ==
  /\ embPc = "attempt"
  /\ attempt < max_retries
  /\ slept' = slept \o BackoffSleep
  /\ api_calls' = api_calls + 1
  /\ provCalls' = provCalls + 1
  /\ IF search_embedding_validate(embedding)
     THEN /\ embCache' = cache_embedding_set(embText, embedding)
          /\ embResult' = embedding
          /\ embPc' = "returned"
          /\ UNCHANGED embError
     ELSE /\ embError' = [type |-> "ValueError", last |-> NoRec]
          /\ embPc' = "raised"
          /\ UNCHANGED <<embCache, embResult>>
  /\ UNCHANGED <<embText, attempt, last_error, api_errors, cache_hits,
                 cache_misses, embCacheAtCall, attemptLog>>

\* no except clause leaves the loop
BreaksLoopNever(kind) == FALSE

\* does the except clause for this kind of error leave the loop?
BreaksLoop(kind) == kind = "APIError"

\* is the loop over once attempt number `made` (1-based) has failed?
LoopOver(kind, made) == BreaksLoop(kind) \/ made >= max_retries

\* do the except clauses of the loop handle this kind of error?  The clauses
\* are tried in order: RateLimitError, Timeout, APIError, Exception.  An error
\* that is not a rate limit is matched against Timeout next, and matching
\* against a class that is not an exception class raises TypeError out of the
\* loop.  Timeout is whatever the provider's library exports under that name:
\* timeout_is_exception says whether it is an exception class.
Handled(kind, timeout_is_exception) ==
  kind = "RateLimitError" \/ timeout_is_exception

\* one iteration of the retry loop whose provider call raises
EmbAttemptFail(kind, timeout_is_exception) ==
  LET err == [kind |-> kind, at |-> attempt + 1]
      over == LoopOver(kind, attempt + 1)
  IN  /\ embPc = "attempt"
      /\ attempt < max_retries
      /\ api_calls' = api_calls + 1
      /\ provCalls' = provCalls + 1
      /\ attemptLog' = Append(attemptLog, kind)
      /\ slept' = slept \o BackoffSleep
                     \o (IF Handled(kind, timeout_is_exception)
                         THEN RateLimitSleep(kind) ELSE <<>>)
      /\ IF Handled(kind, timeout_is_exception)
         THEN /\ api_errors' = api_errors + 1
              /\ last_error' = err
              /\ attempt' = attempt + 1
              /\ IF over
                 THEN /\ embError' = RetryFailure(err)
                      /\ embPc' = "raised"
                 ELSE UNCHANGED <<embError, embPc>>
         ELSE /\ embError' = [type |-> "TypeError", last |-> err]
              /\ embPc' = "raised"
              /\ UNCHANGED <<api_errors, last_error, attempt>>
      /\ UNCHANGED <<embText, embCache, embResult, cache_hits, cache_misses,
                     embCacheAtCall>>

\* the caller has taken the result or the exception: the locals of the call
\* are gone
EmbDone ==
  /\ embPc \in {"returned", "raised"}
  /\ embPc' = "idle"
  /\ attempt' = 0
  /\ provCalls' = 0
  /\ last_error' = NoRec
  /\ attemptLog' = <<>>
  /\ slept' = <<>>
  /\ embCacheAtCall' = <<>>
  /\ UNCHANGED <<embText, api_calls, api_errors, cache_hits, cache_misses,
                 embCache, embResult, embError>>

\* the cache drops an entry (TTL expiry)
CacheExpire(key) ==
  /\ embPc = "idle"
  /\ key \in DOMAIN embCache
  /\ embCache' = [k \in DOMAIN embCache \ {key} |-> embCache[k]]
  /\ UNCHANGED <<embPc, embText, attempt, provCalls, last_error, api_calls,
                 api_errors, cache_hits, cache_misses, embCacheAtCall,
                 embResult, embError, attemptLog, slept>>

(***************************************************************************)
(* SearchVectorService                                                     *)
(***************************************************************************)
VARIABLES
  vecPc,         \* position inside search_vector_find
  vq,            \* the query search_vector_find was called with
  vecColls,      \* collections of the search in progress
  taskPc,        \* per collection: state of its _search_single_collection task
  taskRes,       \* per collection: what gather received from its task
  storeQueries,  \* collections for which a vector-store query was issued
  vecResult,     \* list returned by search_vector_find
  vecError       \* exception raised by search_vector_find, or NoRec

vecVars == <<vecPc, vq, vecColls, taskPc, taskRes, storeQueries, vecResult,
             vecError>>

CollectionNames == Range(available_collections)

\* every collection name a query can carry
AllCollections == CollectionNames \cup {"archive"}

collection_weights(c) ==
  CASE c = "emails" -> 10
    [] c = "documents" -> 9
    [] c = "messages" -> 8
    [] OTHER -> 10

\* points the vector store answers with: (id, score) pairs
Points == [id : DocIds, score : Scores]

\* answers of the vector store to one search: at most `limit` points of
\* distinct ids, best first, none under the score threshold in force
StoreAnswers(limit, score_threshold) ==
  LET eff == IF score_threshold # 0 THEN score_threshold
             ELSE similarity_threshold
      ok(a) == /\ \A i \in 1..Len(a) : a[i].score >= eff
               /\ \A i, j \in 1..Len(a) :
                    i < j => /\ a[i].id # a[j].id
                             /\ a[i].score >= a[j].score
  IN  UNION { {a \in [1..n -> Points] : ok(a)} : n \in 0..limit }

\* the VectorMatch list built from a store answer; weighted_score and
\* normalized_score are <<>> until the merge sets them
ToMatches(answer, collection) ==
  [i \in 1..Len(answer) |->
     [document_id |-> answer[i].id, score |-> answer[i].score,
      collection_name |-> collection, weighted_score |-> <<>>,
      normalized_score |-> <<>>]]

\* a selection that takes the explicit list as it is
select_collections_unrestricted(strategy, target_collections) ==
  IF strategy = "single" THEN <<default_collection>>
  ELSE IF strategy = "multiple"
  THEN IF target_collections # <<>> THEN target_collections
       ELSE <<default_collection>>
  ELSE IF strategy = "auto" THEN available_collections
  ELSE <<default_collection>>

search_vector_select_collections(strategy, target_collections) ==
  IF strategy = "single" THEN <<default_collection>>
  ELSE IF strategy = "multiple"
  THEN IF target_collections # <<>>
       THEN LET valid_collections ==
                  FilterSeq(target_collections, CollectionNames)
            IN  IF valid_collections # <<>> THEN valid_collections
                ELSE <<default_collection>>
       ELSE <<default_collection>>
  ELSE IF strategy = "auto" THEN available_collections
  ELSE <<default_collection>>

\* getattr(m, 'weighted_score', m.score), in hundredths
SortKey(m) ==
  IF m.weighted_score # <<>> THEN m.weighted_score[1] ELSE m.score * 10

\* first part of search_vector_merge_collection_results: weights applied,
\* matches collected collection by collection
RECURSIVE WeightedMatches(_, _)
WeightedMatches(collections, results) ==
  IF collections = <<>> THEN <<>>
  ELSE LET c == Head(collections)
           weight == collection_weights(c)
       IN  [i \in 1..Len(results[c]) |->
              [results[c][i] EXCEPT !.weighted_score = <<results[c][i].score * weight>>,
                                    !.collection_name = c]]
           \o WeightedMatches(Tail(collections), results)

\* collections of a match list in order of first appearance
RECURSIVE FirstSeen(_)
FirstSeen(matches) ==
  IF matches = <<>> THEN <<>>
  ELSE LET rest == FirstSeen(SubSeq(matches, 1, Len(matches) - 1))
           c == matches[Len(matches)].collection_name
       IN  IF SeqContains(rest, c) THEN rest ELSE Append(rest, c)

RECURSIVE SelectMatches(_, _)
SelectMatches(matches, c) ==
  IF matches = <<>> THEN <<>>
  ELSE IF Head(matches).collection_name = c
       THEN <<Head(matches)>> \o SelectMatches(Tail(matches), c)
       ELSE SelectMatches(Tail(matches), c)

MinOf(S) == CHOOSE x \in S : \A y \in S : x <= y
MaxOf(S) == CHOOSE x \in S : \A y \in S : x >= y

\* min-max normalisation inside one collection; a score is the pair
\* <<numerator, denominator>>
NormalizeGroup(group) ==
  LET keys == {SortKey(group[i]) : i \in 1..Len(group)}
      min_score == MinOf(keys)
      score_range == MaxOf(keys) - min_score
  IN  [i \in 1..Len(group) |->
         [group[i] EXCEPT !.normalized_score =
            IF score_range > 0
            THEN <<SortKey(group[i]) - min_score, score_range>>
            ELSE <<1, 1>>]]

RECURSIVE NormalizeGroups(_, _)
NormalizeGroups(collections, matches) ==
  IF collections = <<>> THEN <<>>
  ELSE NormalizeGroup(SelectMatches(matches, Head(collections)))
       \o NormalizeGroups(Tail(collections), matches)

_search_vector_normalize_scores_across_collections(matches) ==
  IF matches = <<>> THEN matches
  ELSE NormalizeGroups(FirstSeen(matches), matches)

RECURSIVE DedupFrom(_, _)
DedupFrom(matches, seen_ids) ==
  IF matches = <<>> THEN <<>>
  ELSE IF Head(matches).document_id \in seen_ids
       THEN DedupFrom(Tail(matches), seen_ids)
       ELSE <<Head(matches)>>
            \o DedupFrom(Tail(matches), seen_ids \cup {Head(matches).document_id})

\* of the matches of one document the best-scored one kept
DedupKeepingBest(matches) ==
  LET better(i, j) ==
        \/ matches[j].score > matches[i].score
        \/ matches[j].score = matches[i].score /\ j < i
      kept == FilterSeq([i \in 1..Len(matches) |-> i],
                        {i \in 1..Len(matches) :
                           ~\E j \in 1..Len(matches) :
                              /\ j # i
                              /\ matches[j].document_id = matches[i].document_id
                              /\ better(i, j)})
  IN  [k \in 1..Len(kept) |-> matches[kept[k]]]

\* every match kept
KeepDuplicates(matches) == matches

_search_vector_deduplicate(matches) == DedupFrom(matches, {})

\* insert m behind every element whose key is at least m's (stable, descending)
RECURSIVE InsertDesc(_, _)
InsertDesc(sorted, m) ==
  IF sorted = <<>> THEN <<m>>
  ELSE IF SortKey(Head(sorted)) >= SortKey(m)
       THEN <<Head(sorted)>> \o InsertDesc(Tail(sorted), m)
       ELSE <<m>> \o sorted

RECURSIVE SortDesc(_)
SortDesc(matches) ==
  IF matches = <<>> THEN <<>>
  ELSE InsertDesc(SortDesc(SubSeq(matches, 1, Len(matches) - 1)),
                  matches[Len(matches)])

\* sorted(matches, key=weighted_score or score, reverse=True)
_search_vector_sort_by_relevance(matches) == SortDesc(matches)

\* the merge without its final slice
MergeUntruncated(collections, results, limit) ==
  _search_vector_sort_by_relevance(
    _search_vector_deduplicate(
      _search_vector_normalize_scores_across_collections(
        WeightedMatches(collections, results))))

search_vector_merge_collection_results(collections, results, limit) ==
  LET all_matches == WeightedMatches(collections, results)
      normalized_matches ==
        _search_vector_normalize_scores_across_collections(all_matches)
      unique_matches == _search_vector_deduplicate(normalized_matches)
      sorted_matches == _search_vector_sort_by_relevance(unique_matches)
  IN  Take(sorted_matches, limit)

RECURSIVE search_vector_apply_score_threshold(_, _)
search_vector_apply_score_threshold(matches, threshold) ==
  IF matches = <<>> THEN <<>>
  ELSE IF Head(matches).score >= threshold
       THEN <<Head(matches)>>
            \o search_vector_apply_score_threshold(Tail(matches), threshold)
       ELSE search_vector_apply_score_threshold(Tail(matches), threshold)

\* search_vector_find without its threshold step
FindResultUnfiltered(results, query) == results

\* tail of search_vector_find: the threshold step on whatever the search gave
FindResult(results, query) ==
  IF query.score_threshold # 0
  THEN search_vector_apply_score_threshold(results, query.score_threshold)
  ELSE results

\* collections search_vector_find searches for a query
FindCollections(query) ==
  IF query.search_mode = "vector_only"
  THEN IF query.target_collections # <<>>
       THEN query.target_collections ELSE <<default_collection>>
  ELSE search_vector_select_collections(query.collection_strategy,
                                        query.target_collections)

\* score threshold handed to the store by the single-collection paths
SingleThreshold(query) ==
  IF query.search_mode = "vector_only" THEN query.score_threshold ELSE 0

NoTasks == [c \in AllCollections |-> "none"]
NoResults == [c \in AllCollections |-> <<>>]

\* search_vector_find treating filter_only as a hybrid search
VecFindBeginSearchingAnyMode(query) ==
  /\ vecPc = "idle"
  /\ vq' = query
  /\ vecError' = NoRec
  /\ storeQueries' = {}
  /\ taskRes' = NoResults
  /\ LET collections == FindCollections(query)
     IN  /\ vecColls' = collections
         /\ vecResult' = <<>>
         /\ IF Len(collections) > 1
            THEN /\ vecPc' = "gather"
                 /\ taskPc' = [c \in AllCollections |->
                                 IF c \in Range(collections)
                                 THEN "pending" ELSE "none"]
            ELSE /\ vecPc' = "single"
                 /\ taskPc' = NoTasks

\* search_vector_find up to its first store query
VecFindBegin(query) ==
  /\ vecPc = "idle"
  /\ vq' = query
  /\ vecError' = NoRec
  /\ storeQueries' = {}
  /\ taskRes' = NoResults
  /\ IF query.search_mode = "filter_only"
     THEN /\ vecPc' = "returned"
          /\ vecResult' = <<>>
          /\ vecColls' = <<>>
          /\ taskPc' = NoTasks
     ELSE LET collections == FindCollections(query)
          IN  /\ vecColls' = collections
              /\ vecResult' = <<>>
              /\ IF Len(collections) > 1
                 THEN /\ vecPc' = "gather"
                      /\ taskPc' = [c \in AllCollections |->
                                      IF c \in Range(collections)
                                      THEN "pending" ELSE "none"]
                 ELSE /\ vecPc' = "single"
                      /\ taskPc' = NoTasks

\* single-collection path: the store answers
VecSingleOk(answer) ==
  /\ vecPc = "single"
  /\ answer \in StoreAnswers(vq.limit, SingleThreshold(vq))
  /\ storeQueries' = storeQueries \cup {vecColls[1]}
  /\ vecResult' = FindResult(ToMatches(answer, vecColls[1]), vq)
  /\ vecPc' = "returned"
  /\ UNCHANGED <<vq, vecColls, taskPc, taskRes, vecError>>

\* single-collection path: the store query raises and the error propagates
VecSingleFail ==
  /\ vecPc = "single"
  /\ storeQueries' = storeQueries \cup {vecColls[1]}
  /\ vecError' = [type |-> "StoreError", last |-> [collection |-> vecColls[1]]]
  /\ vecPc' = "raised"
  /\ UNCHANGED <<vq, vecColls, taskPc, taskRes, vecResult>>

\* _search_single_collection issues its store query
TaskStart(c) ==
  /\ vecPc = "gather"
  /\ taskPc[c] = "pending"
  /\ taskPc' = [taskPc EXCEPT ![c] = "running"]
  /\ storeQueries' = storeQueries \cup {c}
  /\ UNCHANGED <<vecPc, vq, vecColls, taskRes, vecResult, vecError>>

\* what a task hands to gather when its store query raised
FailedTaskResult == <<>>

\* _search_single_collection: the store answers
TaskOk(c, answer) ==
  /\ vecPc = "gather"
  /\ taskPc[c] = "running"
  /\ answer \in StoreAnswers(vq.limit, 0)
  /\ taskPc' = [taskPc EXCEPT ![c] = "ok"]
  /\ taskRes' = [taskRes EXCEPT ![c] = ToMatches(answer, c)]
  /\ UNCHANGED <<vecPc, vq, vecColls, storeQueries, vecResult, vecError>>

\* a task whose store error escapes and ends the whole search
TaskFailAborts(c) ==
  /\ vecPc = "gather"
  /\ taskPc[c] = "running"
  /\ taskPc' = [taskPc EXCEPT ![c] = "failed"]
  /\ vecError' = [type |-> "StoreError", last |-> [collection |-> c]]
  /\ vecPc' = "raised"
  /\ UNCHANGED <<vq, vecColls, taskRes, storeQueries, vecResult>>

\* _search_single_collection: the store query raises, the task returns []
TaskFail(c) ==
  /\ vecPc = "gather"
  /\ taskPc[c] = "running"
  /\ taskPc' = [taskPc EXCEPT ![c] = "failed"]
  /\ taskRes' = [taskRes EXCEPT ![c] = FailedTaskResult]
  /\ UNCHANGED <<vecPc, vq, vecColls, storeQueries, vecResult, vecError>>

\* gather has every task's result: merge, threshold, return
VecGatherJoin ==
  /\ vecPc = "gather"
  /\ \A c \in Range(vecColls) : taskPc[c] \in {"ok", "failed"}
  /\ vecResult' = FindResult(
       search_vector_merge_collection_results(vecColls, taskRes, vq.limit), vq)
  /\ vecPc' = "returned"
  /\ UNCHANGED <<vq, vecColls, taskPc, taskRes, storeQueries, vecError>>

\* the caller has taken the result or the exception: the locals of the call
\* are gone
VecDone ==
  /\ vecPc \in {"returned", "raised"}
  /\ vecPc' = "idle"
  /\ taskPc' = NoTasks
  /\ taskRes' = NoResults
  /\ UNCHANGED <<vq, vecColls, storeQueries, vecResult, vecError>>

(***************************************************************************)
(* SearchQueryProcessor                                                    *)
(***************************************************************************)
\* the letters of the texts; the texts hold no digit and no Korean syllable
Letters == {"a", "A", "b", "B", "c", "d", "e", "f", "h", "i", "k", "m", "n", "o",
            "r", "s", "t", "w", "y"}

IsAlnum(c) == c \in Letters

\* characters search_query_normalize keeps: [\w\s"'@.-]
IsKept(c) == IsAlnum(c) \/ IsSpace(c) \/ c \in {"\"", "'", "@", ".", "-"}

\* SearchFilters(): a string is the sequence of its characters, and an absent
\* string is the empty one (the code tests strings by truthiness only); the
\* attachment flag is None, "True" or "False"
EmptyFilters ==
  [date_range |-> NoRec, sender |-> <<>>, recipients |-> <<>>,
   subject_keywords |-> <<>>, has_attachments |-> None]

search_query_validate(query_text) ==
  IF query_text = <<>> \/ Strip(query_text) = <<>>
  THEN [valid |-> FALSE, message |-> "empty"]
  ELSE IF Len(query_text) > MaxQueryLen
  THEN [valid |-> FALSE, message |-> "too long"]
  ELSE IF Len(Strip(query_text)) < MinQueryLen
  THEN [valid |-> FALSE, message |-> "too short"]
  ELSE IF \A i \in 1..Len(query_text) : ~IsAlnum(query_text[i])
  THEN [valid |-> FALSE, message |-> "no word character"]
  ELSE [valid |-> TRUE, message |-> "OK"]

search_query_normalize(query_text) ==
  LET joined == JoinSplit(query_text)
      replaced == [i \in 1..Len(joined) |->
                     IF IsKept(joined[i]) THEN joined[i] ELSE " "]
  IN  JoinSplit(replaced)

\* the \s* of a pattern
AnySpaces == "\\s*"

\* positions after the matches of a pattern at position i, letters compared
\* without case (re.IGNORECASE); a pattern is a sequence of characters and
\* AnySpaces
RECURSIVE MatchEnds(_, _, _)
MatchEnds(text, i, pattern) ==
  IF pattern = <<>> THEN {i}
  ELSE IF Head(pattern) = AnySpaces
  THEN MatchEnds(text, i, Tail(pattern))
         \cup (IF i <= Len(text) /\ IsSpace(text[i])
               THEN MatchEnds(text, i + 1, pattern) ELSE {})
  ELSE IF i <= Len(text) /\ LowerChar(text[i]) = Head(pattern)
  THEN MatchEnds(text, i + 1, Tail(pattern))
  ELSE {}

\* re.search of an alternation of patterns
Search(text, patterns) ==
  \E i \in 1..Len(text), k \in 1..Len(patterns) :
    MatchEnds(text, i, patterns[k]) # {}

\* the alternatives of the patterns that the letters of the texts can spell
date_patterns ==
  [today |-> << <<"t", "o", "d", "a", "y">> >>,
   yesterday |-> << <<"y", "e", "s", "t", "e", "r", "d", "a", "y">> >>,
   this_week |-> << <<"t", "h", "i", "s", AnySpaces, "w", "e", "e", "k">> >>]

\* the part of the patterns before the captured name
person_patterns ==
  [from |-> <<"f", "r", "o", "m", ":", AnySpaces>>,
   to |-> <<"t", "o", ":", AnySpaces>>]

keyword_patterns ==
  [attachment |-> << <<"a", "t", "t", "a", "c", "h", "m", "e", "n", "t">>,
                     <<"a", "t", "t", "a", "c", "h", "e", "d">> >>]

\* _search_query_parse_date_filters: the day or week the text names, relative
\* to the time of the call; an explicit range needs digits
_search_query_parse_date_filters(text) ==
  IF Search(text, date_patterns.today) THEN [kind |-> "today"]
  ELSE IF Search(text, date_patterns.yesterday) THEN [kind |-> "yesterday"]
  ELSE IF Search(text, date_patterns.this_week) THEN [kind |-> "this_week"]
  ELSE NoRec

\* the longest run of [^\s,] from position k
RECURSIVE NameFrom(_, _)
NameFrom(text, k) ==
  IF k <= Len(text) /\ ~IsSpace(text[k]) /\ text[k] # ","
  THEN <<text[k]>> \o NameFrom(text, k + 1)
  ELSE <<>>

\* group 1 of the first match of prefix([^\s,]+) at or after position i, or
\* the empty string; the \s* of the prefix takes every space it can
RECURSIVE NameAfter(_, _, _)
NameAfter(text, i, prefix) ==
  IF i > Len(text) THEN <<>>
  ELSE LET ends == MatchEnds(text, i, prefix)
           name == IF ends = {} THEN <<>>
                   ELSE NameFrom(text, CHOOSE e \in ends :
                                         \A other \in ends : other <= e)
       IN  IF name # <<>> THEN name ELSE NameAfter(text, i + 1, prefix)

\* _extract_sender: the from: token; an e-mail address needs an "@"
_extract_sender(text) == NameAfter(text, 1, person_patterns.from)

\* _extract_recipients: the to: token
_extract_recipients(text) ==
  LET name == NameAfter(text, 1, person_patterns.to)
  IN  IF name # <<>> THEN <<name>> ELSE <<>>

\* position of the first double quote at or after i, or 0
RECURSIVE NextQuote(_, _)
NextQuote(text, i) ==
  IF i > Len(text) THEN 0
  ELSE IF text[i] = "\"" THEN i
  ELSE NextQuote(text, i + 1)

\* re.findall of "([^"]+)" from position i
RECURSIVE QuotedFrom(_, _)
QuotedFrom(text, i) ==
  LET open == NextQuote(text, i)
      close == IF open = 0 THEN 0 ELSE NextQuote(text, open + 1)
  IN  IF close = 0 THEN <<>>
      ELSE IF close = open + 1 THEN QuotedFrom(text, close)
      ELSE <<SubSeq(text, open + 1, close - 1)>> \o QuotedFrom(text, close + 1)

search_query_extract_filters(query_text) ==
  [date_range |-> _search_query_parse_date_filters(query_text),
   sender |-> _extract_sender(query_text),
   recipients |-> _extract_recipients(query_text),
   subject_keywords |-> QuotedFrom(query_text, 1),
   has_attachments |-> IF Search(query_text, keyword_patterns.attachment)
                       THEN "True" ELSE None]

_merge_filters(explicit_filters, extracted_filters) ==
  [explicit_filters EXCEPT
     !.date_range = IF explicit_filters.date_range = NoRec
                    THEN extracted_filters.date_range ELSE @,
     !.sender = IF explicit_filters.sender = <<>>
                THEN extracted_filters.sender ELSE @,
     !.recipients = IF explicit_filters.recipients = <<>>
                    THEN extracted_filters.recipients ELSE @,
     !.has_attachments = IF explicit_filters.has_attachments = None
                         THEN extracted_filters.has_attachments ELSE @]

\* the result returned from the except clause of search_query_process
FallbackQuery(query_text, filters) ==
  [normalized_text |-> Lower(Strip(query_text)),
   extracted_filters |-> filters,
   fallback |-> TRUE]

\* a fallback that drops the explicit filters of the caller
search_query_process_bare_fallback(query_text, filters, step_failed) ==
  IF search_query_validate(query_text).valid /\ ~step_failed
  THEN LET extracted == search_query_extract_filters(query_text)
       IN  [normalized_text |-> search_query_normalize(query_text),
            extracted_filters |-> IF filters # NoRec
                                  THEN _merge_filters(filters, extracted)
                                  ELSE extracted,
            fallback |-> FALSE]
  ELSE [FallbackQuery(query_text, filters) EXCEPT !.extracted_filters = NoRec]

\* search_query_process: never raises; a failed validation and a step that
\* raises (step_failed) both end in the except clause, which returns the
\* fallback
search_query_process(query_text, filters, step_failed) ==
  IF search_query_validate(query_text).valid /\ ~step_failed
  THEN LET extracted == search_query_extract_filters(query_text)
       IN  [normalized_text |-> search_query_normalize(query_text),
            extracted_filters |-> IF filters # NoRec
                                  THEN _merge_filters(filters, extracted)
                                  ELSE extracted,
            fallback |-> FALSE]
  ELSE FallbackQuery(query_text, filters)

VARIABLES
  queryCache,  \* the processed-query entries of the cache, by key
  qpCalls,     \* calls of search_query_process made so far
  qpLast,      \* the latest call: its arguments, its result, how it was
               \* served ("cache", "pipeline" or "fallback"), whether its
               \* lookup and its write reached the cache, and whether the
               \* entry of its key has stayed since; or NoRec
  qpPrev,      \* the call before the latest, or NoRec
  health,      \* the latest report of the health check, or NoRec
  enrichCall,  \* a call of search_result_enrich: its matches, what the
               \* environment did to it and its results; or NoRec
  requests,    \* the calls of search_orchestrator_process that run side by
               \* side on one orchestrator: the locals of each
  uuids        \* number of uuid4 values drawn so far

VARIABLES
  metrics,     \* the PerformanceMetrics of the performance monitor: the
               \* request counters and response_times, in milliseconds
  percentiles  \* what search_monitor_calculate_percentiles returned last,
               \* with the samples it was computed from; or NoRec

monitorVars == <<metrics, percentiles>>

VARIABLES
  instances,   \* the orchestrator's _initialized flag, the set of services it
               \* holds now (0 for none) with a counter kept inside them, and
               \* how many times the services, the repository and the cache
               \* manager have been constructed
  initCalls    \* the requests that arrive on the fresh orchestrator: where
               \* each one is, the steps it has run and the sets of services
               \* it has run them against

initVars == <<instances, initCalls>>

\* the response time the latest call of _update_statistics on its own was
\* given, in milliseconds
VARIABLE response_time_ms

\* the state of the units that are also exercised on their own
unitVars == <<redis_client, queryCache, qpCalls, qpLast, qpPrev, health,
             enrichCall, requests, uuids, monitorVars, initVars,
             response_time_ms>>

\* md5 of the lower-cased, trimmed text: equal exactly when those are equal
_generate_query_hash(query) == Lower(Strip(query))

\* cache_processed_query_get; a lookup that cannot reach the cache is a miss
cache_processed_query_get(query_text, reachable) ==
  LET key == _generate_query_hash(query_text)
  IN  IF reachable /\ key \in DOMAIN queryCache
      THEN queryCache[key] ELSE NoRec

\* a write that never stores
cache_processed_query_set_lost(query_text, processed_data, reachable) ==
  queryCache

\* cache_processed_query_set; a write that cannot reach the cache does nothing
cache_processed_query_set(query_text, processed_data, reachable) ==
  LET key == _generate_query_hash(query_text)
  IN  IF reachable
      THEN [k \in DOMAIN queryCache \cup {key} |->
              IF k = key THEN processed_data ELSE queryCache[k]]
      ELSE queryCache

(***************************************************************************)
(* SearchOrchestrator                                                      *)
(***************************************************************************)
VARIABLES
  pc,               \* position inside search_orchestrator_process
  query,            \* the SearchQuery object of the request, or NoRec
  query_at_call,    \* the value of that object when the caller passed it
  processed_query,  \* result of the query processor, or NoRec
  enriched_results, \* result of the enricher
  stages,           \* start and end of every stage of the request, in order
  enrichCalls,      \* calls of search_result_enrich made for the request
  logCalls,         \* calls of search_repo_log_query made for the request
  log_outcome,      \* how the log write of the request ended, or None
  total_searches, total_errors,
  _average_response_time, \* running average, a fraction <<num, den>>
  search_time,      \* elapsed milliseconds measured for the response
  response,         \* the SearchResponse returned, or NoRec
  raised            \* the exception raised to the caller, or NoRec

statVars == <<total_searches, total_errors, _average_response_time>>

orchVars == <<pc, query, query_at_call, processed_query, enriched_results,
              stages, enrichCalls, logCalls, log_outcome, statVars, search_time,
              response, raised>>

\* the locals of the one request of Spec
orchLocals == <<pc, query, query_at_call, processed_query, enriched_results,
                stages, enrichCalls, logCalls, log_outcome, search_time,
                response, raised>>

vars == <<embVars, vecVars, orchVars, unitVars>>

LongText == [i \in 1..(MaxQueryLen + 1) |-> "a"]

\* query texts of the requests
OrchTexts == { <<>>, <<" ">>, <<"a">>, <<" ", "a">>, <<"a", "b">>,
               <<"A", " ", " ", "b", "!">>, <<"!", "!">>, LongText }

ExplicitFilters == {NoRec, [EmptyFilters EXCEPT !.sender = <<"k">>]}

OrchTargets == {<<>>, <<"emails", "documents">>}

\* the queries of the requests; auto_extract_filters is read for vector_only
\* queries only, the others are given with it set
OrchQueries ==
  { q \in [query_text : OrchTexts, search_mode : Modes,
           collection_strategy : Strategies, target_collections : OrchTargets,
           filters : ExplicitFilters, limit : {1}, score_threshold : {0, 9},
           auto_extract_filters : BOOLEAN] :
      q.search_mode # "vector_only" => q.auto_extract_filters }

_search_orchestrator_validate_request(query_text) ==
  IF query_text = <<>> \/ Strip(query_text) = <<>> THEN "empty"
  ELSE IF Len(query_text) > MaxQueryLen THEN "too long"
  ELSE IF Len(Strip(query_text)) < MinQueryLen THEN "too short"
  ELSE "ok"

_get_searched_collections(q) ==
  IF q.target_collections # <<>>
  THEN q.target_collections
  ELSE IF q.collection_strategy = "single" THEN <<"emails">>
  ELSE IF q.collection_strategy = "auto"
  THEN <<"emails", "documents", "messages">>
  ELSE <<"emails">>

Event(stage, ev) == [stage |-> stage, ev |-> ev]

\* elapsed times the clock can show, in milliseconds
Elapsed == {0, 3}

\* the running average after one more sample; both are fractions
MovingAverage(average, sample) ==
  IF average[1] = 0
  THEN sample
  ELSE <<sample[1] * average[2] + 9 * average[1] * sample[2],
         10 * average[2] * sample[2]>>

\* _update_statistics: request counter, error counter, running average
_update_statistics(response_time, success) ==
  /\ total_searches' = total_searches + 1
  /\ total_errors' = IF success THEN total_errors ELSE total_errors + 1
  /\ _average_response_time' =
       MovingAverage(_average_response_time, response_time)

Ran(stage) == <<Event(stage, "start"), Event(stage, "end")>>

\* an except clause that re-raises without touching the statistics
OrchFailUncounted(exception) ==
  /\ pc' = "errored"
  /\ raised' = exception
  /\ UNCHANGED <<statVars, response, search_time>>

\* the except clause of search_orchestrator_process: statistics, re-raise
\* the elapsed time is passed in seconds
OrchFail(exception) ==
  /\ pc' = "errored"
  /\ raised' = exception
  /\ \E elapsed \in Elapsed : _update_statistics(<<elapsed, 1000>>, FALSE)
  /\ UNCHANGED <<response, search_time>>

\* entry of search_orchestrator_process and step 1, request validation
OrchBegin(q) ==
  LET verdict == _search_orchestrator_validate_request(q.query_text)
  IN  /\ pc = "idle"
      /\ query' = q
      /\ query_at_call' = q
      /\ IF verdict = "ok"
         THEN /\ pc' = "validated"
              /\ stages' = Ran("validate")
              /\ UNCHANGED <<statVars, search_time, response, raised>>
         ELSE /\ OrchFail([type |-> "ValueError", last |-> [reason |-> verdict]])
              /\ stages' = <<Event("validate", "start")>>
      /\ UNCHANGED <<processed_query, enriched_results, enrichCalls, logCalls,
                     log_outcome>>
      /\ UNCHANGED <<embVars, vecVars, unitVars>>

\* does step 2 run for this query?
NeedsProcessing(q) ==
  q.search_mode # "vector_only" \/ q.auto_extract_filters

\* step 2, query processing; extracted filters replace the query's filters
OrchProcess ==
  /\ pc = "validated"
  /\ pc' = "processed"
  /\ IF NeedsProcessing(query)
     THEN \E step_failed \in BOOLEAN :
            LET p == search_query_process(query.query_text, query.filters,
                                          step_failed)
            IN  /\ processed_query' = p
                /\ query' = IF p.extracted_filters # NoRec
                            THEN [query EXCEPT !.filters = p.extracted_filters]
                            ELSE query
                /\ stages' = stages \o Ran("process")
     ELSE UNCHANGED <<processed_query, query, stages>>
  /\ UNCHANGED <<query_at_call, enriched_results, enrichCalls, logCalls,
                 log_outcome, statVars, search_time, response, raised>>
  /\ UNCHANGED <<embVars, vecVars, unitVars>>

\* the text step 3 embeds
TextToEmbed ==
  IF processed_query # NoRec THEN processed_query.normalized_text
  ELSE query.query_text

\* step 3 not waiting for step 2
EmbedReadyEarly == pc \in {"validated", "processed"}

\* may step 3 start?
EmbedReady == pc = "processed"

\* step 3, embedding creation: the call is made
OrchEmbed ==
  /\ EmbedReady
  /\ query.search_mode \in {"hybrid", "vector_only"}
  /\ EmbCreateBegin(TextToEmbed)
  /\ pc' = "embedding"
  /\ stages' = Append(stages, Event("embed", "start"))
  /\ UNCHANGED <<query, query_at_call, processed_query, enriched_results,
                 enrichCalls,
                 logCalls, log_outcome, statVars, search_time, response,
                 raised>>
  /\ UNCHANGED <<vecVars, unitVars>>

\* the provider answers an attempt of the call in progress
OrchEmbedAttemptOk ==
  /\ pc = "embedding"
  /\ \E v \in ProviderVectors(embText) : EmbAttemptOk(v)
  /\ UNCHANGED <<orchVars, vecVars, unitVars>>

\* the provider fails an attempt of the call in progress
OrchEmbedAttemptFail ==
  /\ pc = "embedding"
  /\ \E kind \in ErrorKinds, timeout_is_exception \in BOOLEAN :
       EmbAttemptFail(kind, timeout_is_exception)
  /\ UNCHANGED <<orchVars, vecVars, unitVars>>

\* step 3 returns the embedding
OrchEmbedReturn ==
  /\ pc = "embedding"
  /\ embPc = "returned"
  /\ EmbDone
  /\ pc' = "embedded"
  /\ stages' = Append(stages, Event("embed", "end"))
  /\ UNCHANGED <<query, query_at_call, processed_query, enriched_results,
                 enrichCalls,
                 logCalls, log_outcome, statVars, search_time, response,
                 raised>>
  /\ UNCHANGED <<vecVars, unitVars>>

\* step 3 with its exception swallowed: the request goes on without a vector
OrchEmbedRaiseSwallowed ==
  /\ pc = "embedding"
  /\ embPc = "raised"
  /\ EmbDone
  /\ pc' = "embedded"
  /\ stages' = Append(stages, Event("embed", "end"))
  /\ UNCHANGED <<query, query_at_call, processed_query, enriched_results,
                 enrichCalls,
                 logCalls, log_outcome, statVars, search_time, response,
                 raised>>
  /\ UNCHANGED <<vecVars, unitVars>>

\* step 3 raises: the exception reaches the except clause
OrchEmbedRaise ==
  /\ pc = "embedding"
  /\ embPc = "raised"
  /\ EmbDone
  /\ OrchFail(embError)
  /\ UNCHANGED <<query, query_at_call, processed_query, enriched_results,
                 stages,
                 enrichCalls, logCalls, log_outcome>>
  /\ UNCHANGED <<vecVars, unitVars>>

\* step 4, vector retrieval: the call is made (without an embedding for
\* filter_only)
OrchRetrieve ==
  /\ \/ pc = "embedded"
     \/ pc = "processed" /\ query.search_mode = "filter_only"
  /\ VecFindBegin(query)
  /\ pc' = "retrieving"
  /\ stages' = Append(stages, Event("retrieve", "start"))
  /\ UNCHANGED <<query, query_at_call, processed_query, enriched_results,
                 enrichCalls,
                 logCalls, log_outcome, statVars, search_time, response,
                 raised>>
  /\ UNCHANGED <<embVars, unitVars>>

\* the vector service works on the call in progress
OrchVecSingleOk ==
  /\ pc = "retrieving"
  /\ \E a \in StoreAnswers(vq.limit, SingleThreshold(vq)) : VecSingleOk(a)
  /\ UNCHANGED <<orchVars, embVars, unitVars>>

OrchVecSingleFail ==
  /\ pc = "retrieving"
  /\ VecSingleFail
  /\ UNCHANGED <<orchVars, embVars, unitVars>>

OrchTaskStart ==
  /\ pc = "retrieving"
  /\ \E c \in AllCollections : TaskStart(c)
  /\ UNCHANGED <<orchVars, embVars, unitVars>>

OrchTaskOk ==
  /\ pc = "retrieving"
  /\ \E c \in AllCollections :
       \E a \in StoreAnswers(vq.limit, 0) : TaskOk(c, a)
  /\ UNCHANGED <<orchVars, embVars, unitVars>>

OrchTaskFail ==
  /\ pc = "retrieving"
  /\ \E c \in AllCollections : TaskFail(c)
  /\ UNCHANGED <<orchVars, embVars, unitVars>>

OrchGatherJoin ==
  /\ pc = "retrieving"
  /\ VecGatherJoin
  /\ UNCHANGED <<orchVars, embVars, unitVars>>

\* uuid4 of the request: never absent
NewQueryId == "id1"

\* the canonical empty response
_create_empty_response(q, elapsed) ==
  [query |-> q.query_text, results |-> <<>>, total_count |-> 0,
   returned_count |-> 0, search_time_ms |-> elapsed, query_id |-> NewQueryId,
   search_mode |-> q.search_mode,
   collections_searched |-> _get_searched_collections(q),
   filters_applied |-> q.filters # NoRec, message |-> "no results"]

\* step 4 returning without the early return for an empty list of matches
OrchRetrieveReturnNoEarlyExit ==
  /\ pc = "retrieving"
  /\ vecPc = "returned"
  /\ VecDone
  /\ pc' = "retrieved"
  /\ stages' = Append(stages, Event("retrieve", "end"))
  /\ UNCHANGED <<query, query_at_call, processed_query, enriched_results,
                 enrichCalls,
                 logCalls, log_outcome, statVars, search_time, response,
                 raised>>
  /\ UNCHANGED <<embVars, unitVars>>

\* step 4 returns: without matches the empty response is returned at once
OrchRetrieveReturn ==
  /\ pc = "retrieving"
  /\ vecPc = "returned"
  /\ VecDone
  /\ IF vecResult = <<>>
     THEN /\ pc' = "responded"
          /\ \E elapsed \in Elapsed :
               response' = _create_empty_response(query, elapsed)
          /\ stages' = stages \o <<Event("retrieve", "end")>> \o Ran("respond")
     ELSE /\ pc' = "retrieved"
          /\ stages' = Append(stages, Event("retrieve", "end"))
          /\ UNCHANGED response
  /\ UNCHANGED <<query, query_at_call, processed_query, enriched_results,
                 enrichCalls,
                 logCalls, log_outcome, statVars, search_time, raised>>
  /\ UNCHANGED <<embVars, unitVars>>

\* step 4 raises
OrchRetrieveRaise ==
  /\ pc = "retrieving"
  /\ vecPc = "raised"
  /\ VecDone
  /\ OrchFail(vecError)
  /\ UNCHANGED <<query, query_at_call, processed_query, enriched_results,
                 stages,
                 enrichCalls, logCalls, log_outcome>>
  /\ UNCHANGED <<embVars, unitVars>>

\* the metadata the document store holds of a document
MetadataOf(document_id) ==
  [subject |-> <<"subject", document_id>>,
   content |-> <<"content", document_id>>,
   attachments |-> (document_id = "d1")]

\* search_result_format_single for a match that can be formatted; metadata is
\* NoRec for the {} of a document without metadata. The default title is the
\* "no title" text, the snippet of an empty content is the empty string
search_result_format_single(match, metadata) ==
  [document_id |-> match.document_id, score |-> match.score,
   source_collection |-> match.collection_name,
   title |-> IF metadata = NoRec THEN <<"no title">> ELSE metadata.subject,
   snippet |-> IF metadata = NoRec THEN <<>>
               ELSE <<"snippet", metadata.content>>,
   enrichment |-> [has_attachments |->
                     (metadata # NoRec /\ metadata.attachments)]]

\* _create_basic_results: results without metadata, titled after the id of
\* the document and with a snippet that says the metadata is unavailable
_create_basic_results(vector_matches) ==
  [i \in 1..Len(vector_matches) |->
     [document_id |-> vector_matches[i].document_id,
      score |-> vector_matches[i].score,
      source_collection |-> vector_matches[i].collection_name,
      title |-> <<"document", vector_matches[i].document_id>>,
      snippet |-> <<"metadata unavailable">>,
      enrichment |-> [has_attachments |-> FALSE]]]

\* an enrichment that gives up the batch when one match cannot be formatted
search_result_enrich_aborting(vector_matches, found, failed) ==
  IF failed # {} THEN <<>>
  ELSE [i \in 1..Len(vector_matches) |->
          search_result_format_single(
            vector_matches[i],
            IF vector_matches[i].document_id \in found
            THEN MetadataOf(vector_matches[i].document_id) ELSE NoRec)]

\* search_result_enrich: found are the documents the bulk fetch returned
\* metadata for (none when the fetch failed: search_result_get_metadata then
\* returns {}), failed the positions of the matches whose formatting raises
\* and returns None. No statement of the try block lets an exception out, so
\* the except clause with _create_basic_results is not entered
search_result_enrich(vector_matches, found, failed) ==
  LET kept == FilterSeq([i \in 1..Len(vector_matches) |-> i],
                        (1..Len(vector_matches)) \ failed)
  IN  [k \in 1..Len(kept) |->
         search_result_format_single(
           vector_matches[kept[k]],
           IF vector_matches[kept[k]].document_id \in found
           THEN MetadataOf(vector_matches[kept[k]].document_id) ELSE NoRec)]

\* step 5, result enrichment
OrchEnrich ==
  /\ pc = "retrieved"
  /\ \E found \in SUBSET {vecResult[i].document_id : i \in 1..Len(vecResult)},
        failed \in SUBSET (1..Len(vecResult)) :
       enriched_results' = search_result_enrich(vecResult, found, failed)
  /\ enrichCalls' = enrichCalls + 1
  /\ pc' = "enriched"
  /\ stages' = stages \o Ran("enrich")
  /\ UNCHANGED <<query, query_at_call, processed_query, logCalls,
                 log_outcome, statVars,
                 search_time, response, raised>>
  /\ UNCHANGED <<embVars, vecVars, unitVars>>

\* how a log write can end: stored, the store failing inside the repository
\* (swallowed there), or the repository raising before its try block
LogOutcomes == {"stored", "store_failed", "repository_raised"}

\* a log step that lets a failing write escape to the except clause
OrchLogPropagates ==
  /\ pc = "enriched"
  /\ search_time' \in Elapsed
  /\ logCalls' = logCalls + 1
  /\ log_outcome' \in LogOutcomes
  /\ IF log_outcome' = "stored"
     THEN /\ pc' = "logged"
          /\ stages' = stages \o Ran("log")
          /\ UNCHANGED <<statVars, response, raised>>
     ELSE /\ pc' = "errored"
          /\ raised' = [type |-> "StoreError", last |-> [collection |-> "log"]]
          /\ stages' = Append(stages, Event("log", "start"))
          /\ _update_statistics(<<search_time', 1000>>, FALSE)
          /\ UNCHANGED response
  /\ UNCHANGED <<query, query_at_call, processed_query, enriched_results,
                 enrichCalls>>
  /\ UNCHANGED <<embVars, vecVars, unitVars>>

\* step 6 and 7 of the source: the elapsed time is measured, then the search
\* is logged; _search_orchestrator_log_search swallows what the write raises
OrchLog ==
  /\ pc = "enriched"
  /\ search_time' \in Elapsed
  /\ logCalls' = logCalls + 1
  /\ log_outcome' \in LogOutcomes
  /\ pc' = "logged"
  /\ stages' = stages \o Ran("log")
  /\ UNCHANGED <<query, query_at_call, processed_query, enriched_results,
                 enrichCalls,
                 statVars, response, raised>>
  /\ UNCHANGED <<embVars, vecVars, unitVars>>

\* the response counting the matches of step 4 as returned, not the results
OrchRespondCountingMatches ==
  /\ pc = "logged"
  /\ _update_statistics(<<search_time, 1>>, TRUE)
  /\ response' =
       [query |-> query.query_text, results |-> enriched_results,
        total_count |-> Len(enriched_results),
        returned_count |-> Len(vecResult),
        search_time_ms |-> search_time, query_id |-> NewQueryId,
        search_mode |-> query.search_mode,
        collections_searched |-> _get_searched_collections(query),
        filters_applied |-> query.filters # NoRec, message |-> None]
  /\ pc' = "responded"
  /\ stages' = stages \o Ran("respond")
  /\ UNCHANGED <<query, query_at_call, processed_query, enriched_results,
                 enrichCalls,
                 logCalls, log_outcome, search_time, raised>>
  /\ UNCHANGED <<embVars, vecVars, unitVars>>

\* statistics update and return of the response
OrchRespond ==
  /\ pc = "logged"
  /\ _update_statistics(<<search_time, 1>>, TRUE)
  /\ response' =
       [query |-> query.query_text, results |-> enriched_results,
        total_count |-> Len(enriched_results),
        returned_count |-> Len(enriched_results),
        search_time_ms |-> search_time, query_id |-> NewQueryId,
        search_mode |-> query.search_mode,
        collections_searched |-> _get_searched_collections(query),
        filters_applied |-> query.filters # NoRec, message |-> None]
  /\ pc' = "responded"
  /\ stages' = stages \o Ran("respond")
  /\ UNCHANGED <<query, query_at_call, processed_query, enriched_results,
                 enrichCalls,
                 logCalls, log_outcome, search_time, raised>>
  /\ UNCHANGED <<embVars, vecVars, unitVars>>

(***************************************************************************)
(* Specifications                                                          *)
(***************************************************************************)
EmbInit ==
  /\ embPc = "idle" /\ embText = <<>> /\ attempt = 0 /\ provCalls = 0
  /\ last_error = NoRec /\ api_calls = 0 /\ api_errors = 0
  /\ cache_hits = 0 /\ cache_misses = 0 /\ embCache = <<>>
  /\ embCacheAtCall = <<>> /\ embResult = NoRec /\ embError = NoRec
  /\ attemptLog = <<>> /\ slept = <<>>

VecInit ==
  /\ vecPc = "idle" /\ vq = NoRec /\ vecColls = <<>> /\ taskPc = NoTasks
  /\ taskRes = NoResults /\ storeQueries = {} /\ vecResult = <<>>
  /\ vecError = NoRec

OrchInit ==
  /\ pc = "idle" /\ query = NoRec /\ query_at_call = NoRec
  /\ processed_query = NoRec
  /\ enriched_results = <<>> /\ stages = <<>> /\ enrichCalls = 0
  /\ logCalls = 0 /\ log_outcome = None /\ total_searches = 0
  /\ total_errors = 0 /\ _average_response_time = <<0, 1>>
  /\ search_time = 0
  /\ response = NoRec /\ raised = NoRec

QueryInit ==
  /\ queryCache = <<>>
  /\ qpCalls = 0
  /\ qpLast = NoRec
  /\ qpPrev = NoRec
  /\ health = NoRec
  /\ enrichCall = NoRec
  /\ requests = [c \in 1..NumCalls |->
                   [pc |-> "idle", given |-> NoRec, query |-> NoRec,
                    query_id |-> 0, processed_query |-> NoRec,
                    response |-> NoRec, raised |-> NoRec]]
  /\ uuids = 0
  /\ metrics = [total_requests |-> 0, successful_requests |-> 0,
                failed_requests |-> 0, response_times |-> <<>>]
  /\ percentiles = NoRec
  /\ instances = [initialized |-> FALSE, services |-> 0, counter |-> 0,
                  constructed |-> [services |-> 0, repository |-> 0,
                                   cache_manager |-> 0]]
  /\ initCalls = [c \in 1..NumCalls |->
                    [pc |-> "idle", steps |-> 0, used |-> {}]]
  /\ response_time_ms = 0

Init ==
  /\ redis_client = "connected"
  /\ EmbInit /\ VecInit /\ OrchInit /\ QueryInit

\* one request through a fresh orchestrator
Next ==
  \/ \E q \in OrchQueries : OrchBegin(q)
  \/ OrchProcess
  \/ OrchEmbed
  \/ OrchEmbedAttemptOk
  \/ OrchEmbedAttemptFail
  \/ OrchEmbedReturn
  \/ OrchEmbedRaise
  \/ OrchRetrieve
  \/ OrchVecSingleOk
  \/ OrchVecSingleFail
  \/ OrchTaskStart
  \/ OrchTaskOk
  \/ OrchTaskFail
  \/ OrchGatherJoin
  \/ OrchRetrieveReturn
  \/ OrchRetrieveRaise
  \/ OrchEnrich
  \/ OrchLog
  \/ OrchRespond

Spec == Init /\ [][Next]_vars

\* one request through a fresh orchestrator whose cache cannot be reached
InitCacheDown ==
  /\ redis_client = None
  /\ EmbInit /\ VecInit /\ OrchInit /\ QueryInit

\* the requests made during the outage: a text that is rejected and one that
\* is accepted
CacheDownQueries == { q \in OrchQueries : q.query_text \in {<<"a">>, <<"a", "b">>} }

NextCacheDown ==
  \/ \E q \in CacheDownQueries : OrchBegin(q)
  \/ OrchProcess
  \/ OrchEmbed
  \/ OrchEmbedAttemptOk
  \/ OrchEmbedAttemptFail
  \/ OrchEmbedReturn
  \/ OrchEmbedRaise
  \/ OrchRetrieve
  \/ OrchVecSingleOk
  \/ OrchVecSingleFail
  \/ OrchTaskStart
  \/ OrchTaskOk
  \/ OrchTaskFail
  \/ OrchGatherJoin
  \/ OrchRetrieveReturn
  \/ OrchRetrieveRaise
  \/ OrchEnrich
  \/ OrchLog
  \/ OrchRespond

SpecCacheDown == InitCacheDown /\ [][NextCacheDown]_vars

\* the embedding service alone, called MaxEmbCalls times over a shared cache
EmbCall ==
  /\ cache_hits + cache_misses < MaxEmbCalls
  /\ \E text \in EmbTexts : EmbCreateBegin(text)
  /\ UNCHANGED <<vecVars, orchVars, unitVars>>

EmbProviderOk ==
  /\ \E v \in ProviderVectors(embText) : EmbAttemptOk(v)
  /\ UNCHANGED <<vecVars, orchVars, unitVars>>

EmbProviderFail ==
  /\ \E kind \in ErrorKinds, timeout_is_exception \in BOOLEAN :
       EmbAttemptFail(kind, timeout_is_exception)
  /\ UNCHANGED <<vecVars, orchVars, unitVars>>

EmbCallEnd == EmbDone /\ UNCHANGED <<vecVars, orchVars, unitVars>>

EmbCacheExpire ==
  /\ \E key \in DOMAIN embCache : CacheExpire(key)
  /\ UNCHANGED <<vecVars, orchVars, unitVars>>

NextEmbed ==
  \/ EmbCall
  \/ EmbProviderOk
  \/ EmbProviderFail
  \/ EmbCallEnd
  \/ EmbCacheExpire

SpecEmbed == Init /\ [][NextEmbed]_vars

\* a status that is healthy as soon as one check passes
overall_status_any(health_checks) ==
  IF \E name \in DOMAIN health_checks : health_checks[name]
  THEN "healthy" ELSE "degraded"

\* all(health_checks.values()) and the status made from it
overall_status(health_checks) ==
  IF \A name \in DOMAIN health_checks : health_checks[name]
  THEN "healthy" ELSE "degraded"

\* a health check whose cache entry tells whether the cache has a client
HealthCheckProbingCache ==
  /\ \E database_ok \in BOOLEAN, vector_manager_ok \in BOOLEAN :
       LET health_checks ==
             [database |-> database_ok,
              cache |-> (redis_client # None),
              vector_store |-> vector_manager_ok,
              openai |-> (api_calls > 0 \/ cache_hits > 0)]
       IN  health' = [status |-> overall_status(health_checks),
                      checks |-> health_checks]
  /\ UNCHANGED <<redis_client, queryCache, qpCalls, qpLast, qpPrev, enrichCall,
                 requests, uuids>>
  /\ UNCHANGED <<embVars, vecVars, orchVars, monitorVars, initVars,
                 response_time_ms>>

\* search_orchestrator_health_check: get_database and get_vector_manager give
\* their object or raise; get_cache_service gives the service made at
\* initialization and its cache_get returns None without a client, so the
\* cache entry is set in either case; the provider entry is read off the
\* counters of the embedding service
HealthCheck ==
  /\ \E database_ok \in BOOLEAN, vector_manager_ok \in BOOLEAN :
       LET health_checks ==
             [database |-> database_ok,
              cache |-> TRUE,
              vector_store |-> vector_manager_ok,
              openai |-> (api_calls > 0 \/ cache_hits > 0)]
       IN  health' = [status |-> overall_status(health_checks),
                      checks |-> health_checks]
  /\ UNCHANGED <<redis_client, queryCache, qpCalls, qpLast, qpPrev, enrichCall,
                 requests, uuids>>
  /\ UNCHANGED <<embVars, vecVars, orchVars, monitorVars, initVars,
                 response_time_ms>>

\* the health check beside an embedding service at work, over a cache that
\* can be reached or not
InitHealth ==
  /\ redis_client \in {"connected", None}
  /\ EmbInit /\ VecInit /\ OrchInit /\ QueryInit

NextHealth ==
  \/ EmbCall
  \/ EmbProviderOk
  \/ EmbProviderFail
  \/ EmbCallEnd
  \/ HealthCheck

SpecHealth == InitHealth /\ [][NextHealth]_vars

\* the vector service alone: one call of search_vector_find
\* the queries of the call; with the auto strategy an explicit list is given
\* only in queries for one result
VecQueries ==
  { q \in [search_mode : Modes, collection_strategy : Strategies,
           target_collections : TargetChoices, limit : 1..MaxLimit,
           score_threshold : Thresholds] :
      (q.collection_strategy = "auto" /\ q.target_collections # <<>>)
        => (q.limit = 1 /\ q.target_collections = <<"documents">>) }

VecCall ==
  /\ \E q \in VecQueries : VecFindBegin(q)
  /\ UNCHANGED <<embVars, orchVars, unitVars>>

VecStoreOk ==
  /\ vecPc = "single"
  /\ \E a \in StoreAnswers(vq.limit, SingleThreshold(vq)) : VecSingleOk(a)
  /\ UNCHANGED <<embVars, orchVars, unitVars>>

VecStoreFail == VecSingleFail /\ UNCHANGED <<embVars, orchVars, unitVars>>

VecTaskStart ==
  /\ \E c \in AllCollections : TaskStart(c)
  /\ UNCHANGED <<embVars, orchVars, unitVars>>

VecTaskOk ==
  /\ vecPc = "gather"
  /\ \E c \in AllCollections :
       \E a \in StoreAnswers(vq.limit, 0) : TaskOk(c, a)
  /\ UNCHANGED <<embVars, orchVars, unitVars>>

VecTaskFail ==
  /\ \E c \in AllCollections : TaskFail(c)
  /\ UNCHANGED <<embVars, orchVars, unitVars>>

VecJoin == VecGatherJoin /\ UNCHANGED <<embVars, orchVars, unitVars>>

NextVector ==
  \/ VecCall
  \/ VecStoreOk
  \/ VecStoreFail
  \/ VecTaskStart
  \/ VecTaskOk
  \/ VecTaskFail
  \/ VecJoin

SpecVector == Init /\ [][NextVector]_vars

\* the query processor alone, called MaxQueryCalls times over a shared cache
\* texts of the calls: a plain one, one that names a sender, a recipient and a
\* day, one with a quoted keyword and an attachment, and one without a letter
QueryTexts ==
  { <<"a", "b">>,
    <<"f", "r", "o", "m", ":", "b", " ", "t", "o", ":", " ", "a", ",",
      "t", "o", "d", "a", "y">>,
    <<"\"", "a", "\"", " ", "a", "t", "t", "a", "c", "h", "e", "d">>,
    <<"!", "!">> }

\* explicit filters of the calls: none, an empty object, and two objects that
\* set different fields
QueryFilters ==
  { NoRec, EmptyFilters,
    [EmptyFilters EXCEPT !.date_range = [kind |-> "explicit"],
                         !.sender = <<"k">>],
    [EmptyFilters EXCEPT !.recipients = << <<"k">> >>,
                         !.subject_keywords = << <<"k">> >>,
                         !.has_attachments = "False"] }

\* one call of search_query_process over the cache: the lookup, then the
\* pipeline and the write of its result; the fallback is not written. An
\* operation on a connected client can fail as well, and is then a miss or a
\* write without effect. The
\* cache holds the model_dump of the result, which json.dumps and json.loads
\* give back with the same values, and ProcessedQuery(**cached_result) makes
\* the result of a hit from it
QueryCall ==
  /\ qpCalls < MaxQueryCalls
  /\ \E query_text \in QueryTexts, filters \in QueryFilters,
        lookup_ok \in {redis_client # None, FALSE}, step_failed \in BOOLEAN,
        write_ok \in {redis_client # None, FALSE} :
       LET cached_result == cache_processed_query_get(query_text, lookup_ok)
           processed == search_query_process(query_text, filters, step_failed)
           dumped == [normalized_text |-> processed.normalized_text,
                      extracted_filters |-> processed.extracted_filters]
       IN  IF cached_result # NoRec
           THEN /\ qpLast' = [text |-> query_text, filters |-> filters,
                              result |-> [normalized_text |->
                                            cached_result.normalized_text,
                                          extracted_filters |->
                                            cached_result.extracted_filters,
                                          fallback |-> FALSE],
                              served |-> "cache",
                              reached |-> TRUE, kept |-> TRUE]
                /\ UNCHANGED queryCache
           ELSE /\ qpLast' = [text |-> query_text, filters |-> filters,
                              result |-> processed,
                              served |-> IF processed.fallback
                                         THEN "fallback" ELSE "pipeline",
                              reached |-> lookup_ok /\ write_ok,
                              kept |-> TRUE]
                /\ queryCache' =
                     IF processed.fallback THEN queryCache
                     ELSE cache_processed_query_set(query_text, dumped,
                                                    write_ok)
  /\ qpCalls' = qpCalls + 1
  /\ qpPrev' = qpLast
  /\ UNCHANGED <<redis_client, health, enrichCall, requests, uuids>>
  /\ UNCHANGED <<embVars, vecVars, orchVars, monitorVars, initVars,
                 response_time_ms>>

\* the entry of a key leaves the cache when its time to live is over
QueryExpire ==
  /\ \E key \in DOMAIN queryCache :
       /\ queryCache' = [k \in DOMAIN queryCache \ {key} |-> queryCache[k]]
       /\ qpLast' = IF qpLast # NoRec /\ key = _generate_query_hash(qpLast.text)
                    THEN [qpLast EXCEPT !.kept = FALSE] ELSE qpLast
  /\ UNCHANGED <<redis_client, qpCalls, qpPrev, health, enrichCall, requests,
                 uuids>>
  /\ UNCHANGED <<embVars, vecVars, orchVars, monitorVars, initVars,
                 response_time_ms>>

NextQuery ==
  \/ QueryCall
  \/ QueryExpire

SpecQuery == Init /\ [][NextQuery]_vars

\* the result enricher alone: one call of search_result_enrich on a list of
\* matches as the vector service returns them
EnrichInputs ==
  { ToMatches(answer, collection) :
      answer \in StoreAnswers(MaxLimit, 0), collection \in {"emails", "documents"} }

EnrichCall ==
  /\ enrichCall = NoRec
  /\ \E vector_matches \in EnrichInputs :
       \E found \in SUBSET {vector_matches[i].document_id :
                              i \in 1..Len(vector_matches)},
          failed \in SUBSET (1..Len(vector_matches)) :
         enrichCall' = [vector_matches |-> vector_matches, found |-> found,
                        failed |-> failed,
                        results |-> search_result_enrich(vector_matches,
                                                         found, failed)]
  /\ UNCHANGED <<redis_client, queryCache, qpCalls, qpLast, qpPrev, health,
                 requests, uuids>>
  /\ UNCHANGED <<embVars, vecVars, orchVars, monitorVars, initVars,
                 response_time_ms>>

NextEnrich == EnrichCall

SpecEnrich == Init /\ [][NextEnrich]_vars

\* NumCalls calls of search_orchestrator_process side by side on one
\* orchestrator. A call keeps its query, its id, its processed query and its
\* results in locals; the calls share the cache. The steps of a call between
\* two awaits are taken at once
ConcQueries ==
  { q \in OrchQueries :
      /\ q.query_text \in {<<"a">>, <<"a", "b">>}
      /\ q.search_mode \in {"hybrid", "vector_only"}
      /\ q.collection_strategy = "single" /\ q.target_collections = <<>>
      /\ q.score_threshold = 0 }

\* entry of a call: the id from uuid4, which does not repeat, and step 1
ConcBegin(c) ==
  /\ requests[c].pc = "idle"
  /\ \E q \in ConcQueries :
       LET verdict == _search_orchestrator_validate_request(q.query_text)
       IN
       /\ requests' =
             [requests EXCEPT ![c] =
                [@ EXCEPT !.given = q, !.query = q, !.query_id = uuids + 1,
                          !.pc = IF verdict = "ok" THEN "validated"
                                 ELSE "errored",
                          !.raised = IF verdict = "ok" THEN NoRec
                                     ELSE [type |-> "ValueError",
                                           last |-> [reason |-> verdict]]]]
       /\ IF verdict = "ok"
              THEN UNCHANGED statVars
              ELSE \E elapsed \in Elapsed :
                     _update_statistics(<<elapsed, 1000>>, FALSE)
  /\ uuids' = uuids + 1
  /\ UNCHANGED <<redis_client, queryCache, qpCalls, qpLast, qpPrev, health,
                 enrichCall>>
  /\ UNCHANGED <<embVars, vecVars, orchLocals, monitorVars, initVars,
                 response_time_ms>>

\* step 2 of a call: search_query_process over the shared cache, and the
\* filters of the query replaced by the extracted ones
ConcProcess(c) ==
  LET q == requests[c].query
      cached_result == cache_processed_query_get(q.query_text, TRUE)
  IN  /\ requests[c].pc = "validated"
      /\ IF ~NeedsProcessing(q)
         THEN /\ requests' = [requests EXCEPT ![c].pc = "processed"]
              /\ UNCHANGED queryCache
         ELSE \E step_failed \in BOOLEAN :
                LET processed ==
                      IF cached_result # NoRec
                      THEN [normalized_text |-> cached_result.normalized_text,
                            extracted_filters |->
                              cached_result.extracted_filters,
                            fallback |-> FALSE]
                      ELSE search_query_process(q.query_text, q.filters,
                                                step_failed)
                IN  /\ requests' =
                         [requests EXCEPT ![c] =
                            [@ EXCEPT
                               !.pc = "processed",
                               !.processed_query = processed,
                               !.query =
                                  IF processed.extracted_filters # NoRec
                                  THEN [q EXCEPT !.filters =
                                          processed.extracted_filters]
                                  ELSE q]]
                    /\ queryCache' =
                         IF cached_result # NoRec \/ processed.fallback
                         THEN queryCache
                         ELSE cache_processed_query_set(
                                q.query_text,
                                [normalized_text |-> processed.normalized_text,
                                 extracted_filters |->
                                   processed.extracted_filters],
                                TRUE)
      /\ UNCHANGED <<redis_client, qpCalls, qpLast, qpPrev, health, enrichCall,
                     uuids>>
      /\ UNCHANGED <<embVars, vecVars, orchVars, monitorVars, initVars,
                 response_time_ms>>

\* how steps 3 to 7 of a call can end: a step raises, step 4 finds no match,
\* or matches are found and enriched
Outcomes == {"raised", "empty", "results"}

\* steps 3 to 7 of a call: the search is made with the filters the query
\* holds by now, and the response is built from the locals of the call. The
\* except clause and the path with results update the statistics; the early
\* return of the empty response does not
ConcRespond(c) ==
  /\ requests[c].pc = "processed"
  /\ \E outcome \in Outcomes, elapsed \in Elapsed :
       /\ requests' =
            [requests EXCEPT ![c] =
               IF outcome = "raised"
               THEN [@ EXCEPT !.pc = "errored",
                              !.raised = [type |-> "Exception",
                                          last |-> [reason |-> "step"]]]
               ELSE [@ EXCEPT
                       !.pc = "responded",
                       !.response =
                          [query |-> requests[c].query.query_text,
                           query_id |-> requests[c].query_id,
                           searched_with |-> requests[c].query.filters,
                           empty |-> outcome = "empty"]]]
       /\ CASE outcome = "raised" ->
                 _update_statistics(<<elapsed, 1000>>, FALSE)
            [] outcome = "results" ->
                 _update_statistics(<<elapsed, 1>>, TRUE)
            [] outcome = "empty" -> UNCHANGED statVars
  /\ UNCHANGED <<redis_client, queryCache, qpCalls, qpLast, qpPrev, health,
                 enrichCall, uuids>>
  /\ UNCHANGED <<embVars, vecVars, orchLocals, monitorVars, initVars,
                 response_time_ms>>

NextConcurrent ==
  \/ \E c \in 1..NumCalls : ConcBegin(c)
  \/ \E c \in 1..NumCalls : ConcProcess(c)
  \/ \E c \in 1..NumCalls : ConcRespond(c)

SpecConcurrent == Init /\ [][NextConcurrent]_vars

\* The performance monitor on its own: requests complete and their response
\* times are recorded, and the percentiles are asked for. A run of up to
\* FreeSamples requests has any response times of Samples and any outcomes;
\* a longer run, of up to MaxSamples requests, is one of successful requests
\* that all take the least time of Samples
Samples == {10, 20, 30, 40, 50}

\* sorted(): the k-th element has fewer than k samples below it and at least
\* k samples not above it
sorted(times) ==
  [k \in 1..Len(times) |->
     CHOOSE v \in Range(times) :
       /\ Cardinality({i \in 1..Len(times) : times[i] < v}) < k
       /\ Cardinality({i \in 1..Len(times) : times[i] <= v}) >= k]

\* int(n * 0.5), int(n * 0.95), int(n * 0.99): the products are cut to whole
\* numbers, and the floating-point products give the exact whole part for
\* every n up to 200000
PercentileIndex(p, n) == (p * n) \div 100

\* the element the code reads at a 0-based index, the last one when the
\* index is not below n
PercentileAt(sorted_times, p) ==
  LET n == Len(sorted_times)
      idx == PercentileIndex(p, n)
  IN  IF idx < n THEN sorted_times[idx + 1] ELSE sorted_times[n]

\* the percentiles with the clamp taken before the index is made 0-based
calculate_percentiles_one_based(response_times) ==
  IF response_times = <<>>
  THEN [p50 |-> 0, p95 |-> 0, p99 |-> 0]
  ELSE LET sorted_times == sorted(response_times)
           n == Len(sorted_times)
           at(p) == sorted_times[IF PercentileIndex(p, n) < 1 THEN 1
                                 ELSE PercentileIndex(p, n)]
       IN  [p50 |-> at(50), p95 |-> at(95), p99 |-> at(99)]

search_monitor_calculate_percentiles(response_times) ==
  IF response_times = <<>>
  THEN [p50 |-> 0, p95 |-> 0, p99 |-> 0]
  ELSE LET sorted_times == sorted(response_times)
       IN  [p50 |-> PercentileAt(sorted_times, 50),
            p95 |-> PercentileAt(sorted_times, 95),
            p99 |-> PercentileAt(sorted_times, 99)]

\* search_monitor_complete_request: the counters grow and the response time
\* is appended to response_times; a failing save of the metrics is swallowed
MonitorComplete ==
  /\ Len(metrics.response_times) < MaxSamples
  /\ \E success \in BOOLEAN, response_time \in Samples :
       /\ Len(metrics.response_times) >= FreeSamples
            => /\ success /\ metrics.failed_requests = 0
               /\ Range(metrics.response_times) \cup {response_time}
                    = {MinOf(Samples)}
       /\ metrics' =
            [total_requests |-> metrics.total_requests + 1,
             successful_requests |->
               metrics.successful_requests + (IF success THEN 1 ELSE 0),
             failed_requests |->
               metrics.failed_requests + (IF success THEN 0 ELSE 1),
             response_times |-> Append(metrics.response_times, response_time)]
  /\ UNCHANGED percentiles
  /\ UNCHANGED <<redis_client, queryCache, qpCalls, qpLast, qpPrev, health,
                 enrichCall, requests, uuids>>
  /\ UNCHANGED <<embVars, vecVars, orchVars, initVars, response_time_ms>>

\* a call of search_monitor_calculate_percentiles
MonitorPercentiles ==
  /\ Len(metrics.response_times) <= FreeSamples
  /\ percentiles' =
       [of |-> metrics.response_times,
        result |-> search_monitor_calculate_percentiles(metrics.response_times)]
  /\ UNCHANGED metrics
  /\ UNCHANGED <<redis_client, queryCache, qpCalls, qpLast, qpPrev, health,
                 enrichCall, requests, uuids>>
  /\ UNCHANGED <<embVars, vecVars, orchVars, initVars, response_time_ms>>

NextMonitor ==
  \/ MonitorComplete
  \/ MonitorPercentiles

SpecMonitor == Init /\ [][NextMonitor]_vars

\* Requests arriving side by side on a fresh orchestrator. Each request goes
\* through _ensure_initialized and then runs StepsPerCall steps against the
\* services the orchestrator holds. A request can be suspended wherever
\* _ensure_initialized awaits a connection being made; what lies between two
\* such awaits is taken at once
OthersUntouched ==
  /\ UNCHANGED <<redis_client, queryCache, qpCalls, qpLast, qpPrev, health,
                 enrichCall, requests, uuids>>
  /\ UNCHANGED <<embVars, vecVars, orchVars, monitorVars, response_time_ms>>

\* the test of _initialized; a request that finds it unset goes on to
\* _ensure_external_services, which awaits the connections not yet made
InitEnter(c) ==
  /\ initCalls[c].pc = "idle"
  /\ initCalls' = [initCalls EXCEPT ![c].pc = IF instances.initialized
                                              THEN "running" ELSE "external"]
  /\ UNCHANGED instances
  /\ OthersUntouched

\* _init_shared_dependencies after the external services: the repository
\* singleton is made if there is none, and its own initialization makes the
\* cache manager singleton before it awaits the cache connection
InitShared(c) ==
  /\ initCalls[c].pc = "external"
  /\ initCalls' = [initCalls EXCEPT ![c].pc = "shared"]
  /\ instances' =
       IF instances.constructed.repository = 0
       THEN [instances EXCEPT !.constructed.repository = 1,
                              !.constructed.cache_manager = 1]
       ELSE instances
  /\ OthersUntouched

\* the rest of _ensure_initialized: the cache manager singleton is taken, the
\* services are constructed and handed their dependencies, and _initialized
\* is set
InitServices(c) ==
  /\ initCalls[c].pc = "shared"
  /\ instances' =
       [instances EXCEPT
          !.initialized = TRUE,
          !.services = instances.constructed.services + 1,
          !.counter = 0,
          !.constructed.services = @ + 1]
  /\ initCalls' = [initCalls EXCEPT ![c].pc = "running"]
  /\ OthersUntouched

\* a step of the request: it calls the service the orchestrator holds now,
\* and the service counts the call
RequestStep(c) ==
  /\ initCalls[c].pc = "running"
  /\ instances' = [instances EXCEPT !.counter = @ + 1]
  /\ initCalls' =
       [initCalls EXCEPT
          ![c] = [pc |-> IF initCalls[c].steps + 1 = StepsPerCall
                         THEN "done" ELSE "running",
                  steps |-> initCalls[c].steps + 1,
                  used |-> initCalls[c].used \cup {instances.services}]]
  /\ OthersUntouched

NextInit ==
  \/ \E c \in 1..NumCalls : InitEnter(c)
  \/ \E c \in 1..NumCalls : InitShared(c)
  \/ \E c \in 1..NumCalls : InitServices(c)
  \/ \E c \in 1..NumCalls : RequestStep(c)

SpecInit == Init /\ [][NextInit]_vars

\* The statistics on their own: _update_statistics is called MaxUpdates times
\* with response times of ResponseTimes
ResponseTimes == {0, 3, 20}

StatsUpdate ==
  /\ total_searches < MaxUpdates
  /\ \E sample \in ResponseTimes, success \in BOOLEAN :
       /\ response_time_ms' = sample
       /\ _update_statistics(<<sample, 1>>, success)
  /\ UNCHANGED <<redis_client, queryCache, qpCalls, qpLast, qpPrev, health,
                 enrichCall, requests, uuids, monitorVars, initVars>>
  /\ UNCHANGED <<embVars, vecVars, orchLocals>>

NextStats == StatsUpdate

SpecStats == Init /\ [][NextStats]_vars

(***************************************************************************)
(* Properties                                                              *)
(***************************************************************************)
StageOrder ==
  <<"validate", "process", "embed", "retrieve", "enrich", "log", "respond">>

StageRank(stage) == CHOOSE i \in 1..Len(StageOrder) : StageOrder[i] = stage

RECURSIVE RanAll(_)
RanAll(names) ==
  IF names = <<>> THEN <<>> ELSE Ran(Head(names)) \o RanAll(Tail(names))

NonEmptyResponse == response # NoRec /\ response.results # <<>>

\* stages is a sequence of start/end pairs, one per stage, in pipeline order
StagesNested ==
  /\ \A i \in 1..Len(stages) :
       IF i % 2 = 1 THEN stages[i].ev = "start"
       ELSE stages[i] = Event(stages[i - 1].stage, "end")
  /\ \A i, j \in 1..Len(stages) :
       (i < j /\ stages[i].stage # stages[j].stage)
         => StageRank(stages[i].stage) < StageRank(stages[j].stage)

C2_FailureAbortsBeforeRetrieval ==
  /\ (query # NoRec
      /\ _search_orchestrator_validate_request(query.query_text) # "ok")
       => /\ pc = "errored"
          /\ raised.type = "ValueError"
          /\ provCalls = 0 /\ api_calls = 0
          /\ storeQueries = {} /\ enrichCalls = 0 /\ response = NoRec
  /\ embError # NoRec
       => /\ pc \in {"embedding", "errored"}
          /\ pc = "errored" => raised = embError
          /\ pc = "embedding" => embPc = "raised"
          /\ storeQueries = {} /\ enrichCalls = 0 /\ response = NoRec

C2_Witness ==
  /\ pc = "errored"
  /\ raised = embError
  /\ embError.type = "Exception"
  /\ api_calls = max_retries
  /\ storeQueries = {}

\* collections of the search in progress whose task got an answer
Survivors == FilterSeq(vecColls, {c \in AllCollections : taskPc[c] = "ok"})

Retryable(kind) == kind \in {"RateLimitError", "Timeout"}

\* every provider invocation of the call in progress failed
AllAttemptsFailed == provCalls > 0 /\ provCalls = Len(attemptLog)

\* C4: one embedding call invokes the provider at most 3 times, and a call
\* whose every attempt failed with a rate limit or a timeout raises, after
\* exactly 3 invocations, the retry failure carrying the last of these errors.
C4_ThreeAttemptsThenUnavailable ==
  /\ provCalls <= 3
  /\ (embPc = "raised" /\ AllAttemptsFailed
      /\ \A i \in 1..Len(attemptLog) : Retryable(attemptLog[i]))
       => /\ provCalls = 3
          /\ embError = RetryFailure([kind |-> attemptLog[3], at |-> 3])

\* C5: an attempt that fails with a non-retryable provider error is the last
\* one: when it was attempt k, the call has raised after exactly k provider
\* invocations.
C5_NonRetryableStopsAtK ==
  \A k \in 1..Len(attemptLog) :
    attemptLog[k] = "APIError"
      => /\ k = Len(attemptLog)
         /\ embPc = "raised"
         /\ embError # NoRec
         /\ provCalls = k

C5_Witness ==
  /\ embPc = "raised"
  /\ Len(attemptLog) = 2
  /\ attemptLog[2] = "APIError"
  /\ provCalls = 2

\* what the cache held for the text of the call in progress when it began
CachedAtCall ==
  LET key == _generate_text_hash(embText)
  IN  IF key \in DOMAIN embCacheAtCall THEN embCacheAtCall[key] ELSE NoRec

C7_NoDuplicateIds ==
  (vecPc = "returned" /\ Len(vecColls) > 1) =>
    \A i, j \in 1..Len(vecResult) :
      i # j => vecResult[i].document_id # vecResult[j].document_id

C7_Witness ==
  /\ vecPc = "returned"
  /\ Len(vecColls) > 1
  /\ \E c, d \in Range(vecColls) :
       \E i \in 1..Len(taskRes[c]), j \in 1..Len(taskRes[d]) :
         /\ c # d
         /\ taskRes[c][i].document_id = taskRes[d][j].document_id
         /\ taskRes[c][i].score # taskRes[d][j].score
         /\ \E k \in 1..Len(vecResult) :
              vecResult[k].document_id = taskRes[c][i].document_id

\* C8: the scores of the list search_vector_find returns never increase from
\* one element to the next.
C8_ScoresNonIncreasing ==
  vecPc = "returned" =>
    \A i, j \in 1..Len(vecResult) :
      i < j => vecResult[i].score >= vecResult[j].score

\* C9: every match a vector_only search returns has a score of at least the
\* query's threshold, and the list of a multi-collection search is the merged
\* list with the matches under the threshold dropped from it.
C9_ThresholdAfterMerge ==
  (vecPc = "returned" /\ vq.search_mode = "vector_only") =>
    /\ \A i \in 1..Len(vecResult) : vecResult[i].score >= vq.score_threshold
    /\ Len(vecColls) > 1 =>
         vecResult =
           search_vector_apply_score_threshold(
             search_vector_merge_collection_results(vecColls, taskRes,
                                                    vq.limit),
             vq.score_threshold)

C9_Witness ==
  /\ vecPc = "returned"
  /\ vq.search_mode = "vector_only"
  /\ vq.score_threshold = 9
  /\ Len(vecColls) > 1
  /\ \E c \in Range(vecColls) :
       \E i \in 1..Len(taskRes[c]) : taskRes[c][i].score < 9
  /\ vecResult # <<>>

RECURSIVE TotalMatches(_)
TotalMatches(collections) ==
  IF collections = <<>> THEN 0
  ELSE Len(taskRes[Head(collections)]) + TotalMatches(Tail(collections))

\* C10: the list search_vector_find returns is never longer than query.limit.
C10_AtMostLimit ==
  vecPc = "returned" => Len(vecResult) <= vq.limit

C10_Witness ==
  /\ vecPc = "returned"
  /\ Len(vecColls) > 1
  /\ TotalMatches(vecColls) > vq.limit
  /\ Len(vecResult) = vq.limit

\* retrieval of the request has returned to the orchestrator
RetrievalReturned == SeqContains(stages, Event("retrieve", "end"))

C12_ErrorCountedAndReraised ==
  [][/\ ((pc = "embedding" /\ embPc = "raised")
         \/ (pc = "retrieving" /\ vecPc = "raised")) => pc' = "errored"
     /\ (pc # "errored" /\ pc' = "errored")
          => /\ total_errors' = total_errors + 1
             /\ \E elapsed \in Elapsed :
                  _average_response_time' =
                    MovingAverage(_average_response_time, <<elapsed, 1000>>)
             /\ raised' # NoRec
             /\ response' = NoRec
             /\ pc = "idle" => raised'.type = "ValueError"
             /\ pc = "embedding" => raised' = embError
             /\ pc = "retrieving" => raised' = vecError]_vars

C12_Witness ==
  /\ pc = "errored"
  /\ vecError # NoRec
  /\ raised = vecError
  /\ total_errors = 1
  /\ _average_response_time = <<3, 1000>>

MustReject(text) ==
  \/ text = <<>>
  \/ Strip(text) = <<>>
  \/ Len(Strip(text)) = 1
  \/ Len(text) > MaxQueryLen
  \/ \A i \in 1..Len(text) : ~IsAlnum(text[i])

\* texts the validators have to accept
MustAccept(text) ==
  /\ ~MustReject(text)
  /\ Len(text) \in MinQueryLen..MaxQueryLen
  /\ \E i \in 1..Len(text) : IsAlnum(text[i])

\* the request validation of the orchestrator has rejected the request
RequestRejected ==
  /\ pc = "errored"
  /\ stages = <<Event("validate", "start")>>
  /\ raised.type = "ValueError"

\* C14: the query processor's search_query_validate and the orchestrator's
\* request validation both reject every text that is empty, blank, of trimmed
\* length 1, longer than 1000 characters or made only of non-word characters,
\* and both accept every text of length 2 to 1000 with a word character.
C14_ValidatorsRejectAndAccept ==
  (query # NoRec)
    => LET text == query.query_text
       IN  /\ MustReject(text)
                => /\ ~search_query_validate(text).valid
                   /\ RequestRejected
           /\ MustAccept(text)
                => /\ search_query_validate(text).valid
                   /\ ~RequestRejected

\* step 2 of the request has called the query processor
ProcessingStarted == SeqContains(stages, Event("process", "start"))

\* C15: when the text given to search_query_process fails the processor's
\* validation, the call raises the validation error instead of returning a
\* ProcessedQuery, and the request ends before any embedding is created.
C15_InvalidTextRaises ==
  (ProcessingStarted /\ ~search_query_validate(query.query_text).valid)
    => /\ processed_query = NoRec
       /\ pc = "errored"
       /\ raised.type = "ValueError"
       /\ cache_hits = 0 /\ cache_misses = 0 /\ api_calls = 0

\* the query processor returned from its except clause
FellBack == processed_query # NoRec /\ processed_query.fallback

\* after the fallback the request goes on with its next step
ContinuesAfterProcessing ==
  pc = "processed"
    => /\ raised = NoRec
       /\ IF query.search_mode \in {"hybrid", "vector_only"}
          THEN ENABLED OrchEmbed
          ELSE ENABLED OrchRetrieve

\* C16 as stated: after a failed internal step search_query_process returns a
\* ProcessedQuery whose normalized text is the lower-cased, trimmed original
\* and which carries no filters, and the request continues to embedding.
C16_FallbackWithoutFilters ==
  FellBack
    => /\ processed_query.normalized_text = Lower(Strip(query.query_text))
       /\ processed_query.extracted_filters = NoRec
       /\ pc = "processed" => raised = NoRec /\ ENABLED OrchEmbed

\* C16: after a failed internal step search_query_process does not raise; it
\* returns a ProcessedQuery whose normalized text is the lower-cased, trimmed
\* original and whose filters are the caller's explicit filters, nothing being
\* extracted from the text, and the request continues with its next step
\* (embedding for the hybrid and vector_only modes).
C16_FallbackKeepsExplicitFilters ==
  FellBack
    => /\ processed_query.normalized_text = Lower(Strip(query.query_text))
       /\ processed_query.extracted_filters = query_at_call.filters
       /\ ContinuesAfterProcessing

C16_Witness ==
  /\ FellBack
  /\ search_query_validate(query.query_text).valid
  /\ processed_query.normalized_text # search_query_normalize(query.query_text)
  /\ query_at_call.filters # NoRec
  /\ pc = "embedding"

\* the store failed for every collection of the search in progress
AllUnreachable ==
  /\ vecColls # <<>>
  /\ \/ vecPc = "raised"
     \/ /\ Len(vecColls) > 1
        /\ \A c \in Range(vecColls) : taskPc[c] = "failed"

\* C17: if the vector store is unreachable for every collection a search
\* asks for, on the single-collection and on the multi-collection path, the
\* retrieval raises and the request ends with the error; it returns no match
\* list and no response.
C17_AllUnreachableFails ==
  (pc = "retrieving" /\ AllUnreachable)
    => /\ vecPc \in {"gather", "raised"}
       /\ vecPc = "raised" => vecError # NoRec
       /\ response = NoRec

\* C18: in every response collections_searched lists exactly the collections
\* that were queried in the vector store for the request, and the
\* source_collection of every result is one of them.
C18_CollectionsSearchedAreQueried ==
  (response # NoRec)
    => /\ Range(response.collections_searched) = storeQueries
       /\ \A i \in 1..Len(response.results) :
            response.results[i].source_collection
              \in Range(response.collections_searched)

\* C19: for a hybrid search the collections chosen by
\* search_vector_select_collections are the default collection alone for
\* strategy single; for strategy multiple the explicit list restricted to the
\* known collections, or the default collection alone when that is empty or no
\* list was given; for strategy auto all known collections. These are the
\* collections the store is queried for.
C19_SelectCollections ==
  (vecPc # "idle" /\ vq.search_mode = "hybrid")
    => LET known == FilterSeq(vq.target_collections, CollectionNames)
       IN  /\ vq.collection_strategy = "single"
                => vecColls = <<default_collection>>
           /\ vq.collection_strategy = "multiple"
                => vecColls = IF known # <<>> THEN known
                              ELSE <<default_collection>>
           /\ vq.collection_strategy = "auto"
                => vecColls = available_collections
           /\ vecPc = "returned" => storeQueries = Range(vecColls)

C19_Witness ==
  /\ vecPc = "returned"
  /\ vq.search_mode = "hybrid"
  /\ vq.collection_strategy = "multiple"
  /\ vq.target_collections = <<"archive", "messages">>
  /\ vecColls = <<"messages">>
  /\ storeQueries = {"messages"}

\* C20: after search_orchestrator_process has returned or raised, every field
\* of the caller's SearchQuery, its filters included, has the value it had
\* when the call was made.
C20_CallerQueryUnchanged ==
  (pc \in {"responded", "errored"}) => query = query_at_call

\* a call whose pipeline ran to its end with explicit filters of the caller
MergedCall ==
  /\ qpLast # NoRec
  /\ qpLast.served = "pipeline"
  /\ qpLast.filters # NoRec

\* the value the merge policy gives a field: the explicit value when it is
\* set, the extracted value otherwise
Preferred(explicit, extracted, unset) ==
  IF explicit # unset THEN explicit ELSE extracted

\* C21: merging explicit and extracted filters yields, for each of the five
\* filter fields, the explicit value when the explicit field is set and the
\* extracted value when the explicit field is absent or empty
C21_MergeFieldByField ==
  MergedCall =>
    LET explicit == qpLast.filters
        extracted == search_query_extract_filters(qpLast.text)
        merged == qpLast.result.extracted_filters
    IN  /\ merged.date_range
             = Preferred(explicit.date_range, extracted.date_range, NoRec)
        /\ merged.sender = Preferred(explicit.sender, extracted.sender, <<>>)
        /\ merged.recipients
             = Preferred(explicit.recipients, extracted.recipients, <<>>)
        /\ merged.subject_keywords
             = Preferred(explicit.subject_keywords,
                         extracted.subject_keywords, <<>>)
        /\ merged.has_attachments
             = Preferred(explicit.has_attachments,
                         extracted.has_attachments, None)

\* two successive calls with the same original text
SameTextTwice ==
  /\ qpPrev # NoRec
  /\ qpLast.text = qpPrev.text

SameResult ==
  /\ qpLast.result.normalized_text = qpPrev.result.normalized_text
  /\ qpLast.result.extracted_filters = qpPrev.result.extracted_filters

RaisedWithoutCache ==
  raised # NoRec => raised.type \in {"ValueError", "Exception", "TypeError",
                                     "StoreError"}

C24_HealthyIffAllReachable ==
  health # NoRec =>
    /\ health.status \in {"healthy", "degraded"}
    /\ health.status = "healthy"
         <=> ( /\ health.checks.database
               /\ redis_client # None
               /\ health.checks.vector_store
               /\ health.checks.openai )

\* C24, amended: the report is healthy exactly when the document-store check,
\* the vector-store check and the provider-liveness check pass, and degraded
\* otherwise; the cache check passes whether or not the cache is reachable
C24_HealthyIffChecksPass ==
  health # NoRec =>
    /\ health.status \in {"healthy", "degraded"}
    /\ health.checks.cache
    /\ health.status = "healthy"
         <=> ( /\ health.checks.database
               /\ health.checks.vector_store
               /\ health.checks.openai )

\* a healthy report over a reachable cache that has served a vector
C24_Witness ==
  /\ health # NoRec
  /\ redis_client # None
  /\ cache_hits > 0
  /\ health.checks.database /\ health.checks.vector_store
  /\ health.checks.openai
  /\ health.status = "healthy"

\* C25: with the cache unreachable and the document-store, vector-store and
\* provider-liveness checks passed, the report is healthy
C25_CacheDownStaysHealthy ==
  ( /\ health # NoRec
    /\ redis_client = None
    /\ health.checks.database
    /\ health.checks.vector_store
    /\ health.checks.openai )
  => health.status = "healthy"

C25_Witness ==
  /\ health # NoRec
  /\ redis_client = None
  /\ health.checks.database /\ health.checks.vector_store
  /\ health.checks.openai
  /\ health.status = "healthy"

\* C26: when the bulk metadata fetch fails for the whole batch,
\* search_result_enrich returns one placeholder result per match (synthetic
\* title, explanatory snippet, no enrichment), with the document id and the
\* score of the match and in the order of the matches
C26_PlaceholdersOnFetchFailure ==
  ( /\ enrichCall # NoRec
    /\ enrichCall.vector_matches # <<>>
    /\ enrichCall.found = {} )
  => enrichCall.results = _create_basic_results(enrichCall.vector_matches)

\* the positions of the matches of a call that could be formatted
Formatted == (1..Len(enrichCall.vector_matches)) \ enrichCall.failed

\* C27: a match whose result cannot be built is left out alone: the call
\* returns the complete results of all other matches in their order
C27_FailedMatchAloneOmitted ==
  enrichCall # NoRec =>
    /\ Len(enrichCall.results) = Cardinality(Formatted)
    /\ \E at \in [1..Len(enrichCall.results) -> Formatted] :
         /\ \A j, k \in DOMAIN at : j < k => at[j] < at[k]
         /\ \A k \in DOMAIN at :
              LET match == enrichCall.vector_matches[at[k]]
                  result == enrichCall.results[k]
              IN  /\ result.document_id = match.document_id
                  /\ result.score = match.score
                  /\ result.source_collection = match.collection_name
                  /\ DOMAIN result = {"document_id", "score",
                                      "source_collection", "title",
                                      "snippet", "enrichment"}
                  /\ match.document_id \in enrichCall.found
                       => /\ result.title = MetadataOf(match.document_id).subject
                          /\ result.snippet # <<>>

\* the first of two matches could not be formatted, the second is returned
C27_Witness ==
  /\ enrichCall # NoRec
  /\ Len(enrichCall.vector_matches) = 2
  /\ enrichCall.failed = {1}
  /\ enrichCall.found = {"d1", "d2"}
  /\ Len(enrichCall.results) = 1
  /\ enrichCall.results[1].document_id = enrichCall.vector_matches[2].document_id

\* the filters a call can search with when only its own query decides them:
\* its explicit filters, the filters extracted from its text, or both merged
OwnFilters(q) ==
  LET extracted == search_query_extract_filters(q.query_text)
  IN  {q.filters, extracted}
        \cup (IF q.filters # NoRec
              THEN {_merge_filters(q.filters, extracted)} ELSE {})

\* C28: under every interleaving of the calls each response echoes the text of
\* its own query and carries an id no other call has, and no call observes
\* the query of another call: the filters it searches with come from its own
\* query
C28_CallsIsolated ==
  \A c \in 1..NumCalls :
    requests[c].pc = "responded" =>
      /\ requests[c].response.query = requests[c].given.query_text
      /\ \A d \in (1..NumCalls) \ {c} :
           requests[d].pc # "idle"
             => requests[d].query_id # requests[c].response.query_id
      /\ requests[c].response.searched_with \in OwnFilters(requests[c].given)

C30_CountsMatchResults ==
  response # NoRec =>
    /\ response.returned_count = Len(response.results)
    /\ response.returned_count <= response.total_count

\* a response with results, built after enrichment
C30_Witness ==
  /\ pc = "responded"
  /\ enrichCalls = 1
  /\ response.results # <<>>
  /\ response.returned_count = Len(response.results)
  /\ response.total_count >= 1

\* the samples in ascending order, by insertion from the left
RECURSIVE Ascending(_)
Ascending(times) ==
  IF times = <<>> THEN <<>>
  ELSE LET rest == Ascending(SubSeq(times, 1, Len(times) - 1))
           x == times[Len(times)]
           below == Cardinality({i \in 1..Len(rest) : rest[i] <= x})
       IN  SubSeq(rest, 1, below) \o <<x>> \o SubSeq(rest, below + 1, Len(rest))

\* floor(p/100 * n), clamped to the last index n - 1
ClampedIndex(p, n) ==
  LET floor == CHOOSE k \in 0..n : k * 100 <= p * n /\ p * n < (k + 1) * 100
  IN  IF floor > n - 1 THEN n - 1 ELSE floor

\* C31: for each p of 50, 95 and 99 the percentile is the sample at index
\* floor(p/100 * n), clamped to the last index, of the n samples in ascending
\* order, so that 10, 20, 30, 40, 50 give p50 = 30 and p95 = 50; without
\* samples every percentile is 0
C31_NearestRankPercentiles ==
  percentiles # NoRec =>
    LET times == percentiles.of
        n == Len(times)
        expected(p) == Ascending(times)[ClampedIndex(p, n) + 1]
    IN  /\ n = 0 => percentiles.result = [p50 |-> 0, p95 |-> 0, p99 |-> 0]
        /\ n > 0 => percentiles.result = [p50 |-> expected(50),
                                          p95 |-> expected(95),
                                          p99 |-> expected(99)]
        /\ Range(times) = Samples /\ n = 5
             => percentiles.result.p50 = 30 /\ percentiles.result.p95 = 50

C31_Witness ==
  /\ percentiles # NoRec
  /\ percentiles.of = <<50, 10, 40, 20, 30>>
  /\ percentiles.result = [p50 |-> 30, p95 |-> 50, p99 |-> 50]

\* C32: whatever samples have been recorded, the monitor holds at most 1000
\* of them, the last ones: a sample recorded when 1000 are held takes the
\* place of the oldest
C32_WindowOfLastThousand ==
  /\ Len(metrics.response_times) <= 1000
  /\ metrics.total_requests > 1000
       => Len(metrics.response_times) = 1000

\* the calls made so far, and whether each of them has ended
CallsMade == {c \in 1..NumCalls : requests[c].pc # "idle"}
AllTerminated ==
  \A c \in CallsMade : requests[c].pc \in {"responded", "errored"}

\* C33: once the calls made have ended, in whatever order their steps ran,
\* the request counter is the number of calls made and the error counter the
\* number of calls that raised; a call that ends with the empty response is
\* counted once
C33_CountersMatchCalls ==
  AllTerminated =>
    /\ total_searches = Cardinality(CallsMade)
    /\ total_errors =
         Cardinality({c \in CallsMade : requests[c].pc = "errored"})

\* every set field of the explicit filters has its explicit value in returned
ExplicitKept(explicit, returned) ==
  /\ returned # NoRec
  /\ explicit.date_range # NoRec => returned.date_range = explicit.date_range
  /\ explicit.sender # <<>> => returned.sender = explicit.sender
  /\ explicit.recipients # <<>> => returned.recipients = explicit.recipients
  /\ explicit.subject_keywords # <<>>
       => returned.subject_keywords = explicit.subject_keywords
  /\ explicit.has_attachments # None
       => returned.has_attachments = explicit.has_attachments

\* C34: for every call of search_query_process with explicit filters, a call
\* served from the cache after an earlier call with the same text and other
\* or no explicit filters included, every set field of the explicit filters
\* of the call has its explicit value in the extracted_filters returned
C34_ExplicitFiltersWin ==
  (qpLast # NoRec /\ qpLast.filters # NoRec)
    => ExplicitKept(qpLast.filters, qpLast.result.extracted_filters)

\* seconds slept between attempt k of the call in progress and what follows
RECURSIVE SecondsAfter(_, _)
SecondsAfter(sleeps, k) ==
  IF sleeps = <<>> THEN 0
  ELSE (IF Head(sleeps).after = k THEN Head(sleeps).seconds ELSE 0)
         + SecondsAfter(Tail(sleeps), k)

\* C36: between a rate-limited attempt and the next attempt the service waits
\* exactly 5 seconds, between a timed-out attempt k and attempt k+1 exactly
\* 1 s * 2^(k-1), and it does not wait after the final attempt
C36_BackoffWaits ==
  \A k \in 1..provCalls :
    /\ (k < provCalls /\ attemptLog[k] = "RateLimitError")
         => SecondsAfter(slept, k) = 5
    /\ (k < provCalls /\ attemptLog[k] = "Timeout")
         => SecondsAfter(slept, k) = 2 ^ (k - 1)
    /\ (embPc \in {"returned", "raised"} /\ k = provCalls)
         => SecondsAfter(slept, k) = 0

\* C39: a vector reaches the embedding cache only after it has passed
\* search_embedding_validate: every entry of the cache is a valid vector, and
\* a call that raises because the provider's vector failed validation leaves
\* the cache as it was when the call began
C39_OnlyValidatedCached ==
  /\ \A key \in DOMAIN embCache : search_embedding_validate(embCache[key])
  /\ (embPc = "raised" /\ embError.type = "ValueError")
       => embCache = embCacheAtCall

\* a call that raised on an invalid vector beside the entry of an earlier call
C39_Witness ==
  /\ embPc = "raised"
  /\ embError.type = "ValueError"
  /\ provCalls >= 1
  /\ DOMAIN embCache # {}
  /\ _generate_text_hash(embText) \notin DOMAIN embCache

\* the steps the requests have run so far
RECURSIVE StepsRun(_)
StepsRun(n) == IF n = 0 THEN 0 ELSE initCalls[n].steps + StepsRun(n - 1)

\* C35: when several requests arrive side by side on a fresh orchestrator,
\* its services, the repository and the cache manager are constructed once;
\* no request runs against a second set of services and no counter of a
\* service is set back by a later initialization
C35_ConstructedOnce ==
  /\ instances.constructed.services <= 1
  /\ instances.constructed.repository <= 1
  /\ instances.constructed.cache_manager <= 1
  /\ \A c \in 1..NumCalls : initCalls[c].used \subseteq {1}
  /\ instances.counter = StepsRun(NumCalls)

\* the places in vecColls of the collections whose matches hold the document
HoldersOf(document_id) ==
  {n \in 1..Len(vecColls) :
     \E i \in 1..Len(taskRes[vecColls[n]]) :
       taskRes[vecColls[n]][i].document_id = document_id}

RankOf(m) ==
  IF m.normalized_score # <<>> THEN m.normalized_score
  ELSE IF m.weighted_score # <<>> THEN <<m.weighted_score[1], 100>>
  ELSE <<m.score, 10>>

\* C38: the merged result of a search over several collections is ordered by
\* descending normalized score, the min-max value inside the collection of
\* the match (1 for every match of a collection whose scores are all equal)
C38_OrderedByNormalizedScore ==
  (vecPc = "returned" /\ Len(vecColls) > 1) =>
    \A i, j \in 1..Len(vecResult) :
      i < j => RankOf(vecResult[i])[1] * RankOf(vecResult[j])[2]
                 >= RankOf(vecResult[j])[1] * RankOf(vecResult[i])[2]

\* equality of two fractions
SameFraction(a, b) == a[1] * b[2] = b[1] * a[2]

\* 0.1 * sample + 0.9 * average, both fractions
Smoothed(average, sample) ==
  <<sample[1] * average[2] + 9 * average[1] * sample[2],
    10 * average[2] * sample[2]>>

\* C40: the first statistics update makes the running average the sample it
\* records, and every later update with sample s makes it
\* 0.1 * s + 0.9 * (the average before); no sample but the first seeds the
\* average, whatever its value
C40_SeededOnceThenSmoothed ==
  [][total_searches' = total_searches + 1
       => LET sample == <<response_time_ms', 1>>
          IN  IF total_searches = 0
              THEN SameFraction(_average_response_time', sample)
              ELSE SameFraction(_average_response_time',
                                Smoothed(_average_response_time, sample))]_vars
====
